---- MODULE Spec2Model ----
(***************************************************************************)
(* TWA analyzer: the batch driver of TWA_cal.py, the interactive range     *)
(* selector of thermal_analysis/interactive_ui.py, the orchestrator of     *)
(* thermal_analysis/analyzer.py, the persistence of perform_save, and the  *)
(* fitting, physics and parser functions of thermal_analysis.              *)
(*                                                                         *)
(* Conventions.  Row positions are 0-based as in the source; an array is a *)
(* function over 0..n-1.  A float is a normalised rational [n, d] with     *)
(* d > 0, or one of the IEEE values Inf and NaN; None is Python's None.    *)
(* Diffusivities are held in units of pi * 1e-12 m^2/s, so that            *)
(* alpha = pi * (L * 1e-6)^2 / slope^2 is the rational L^2 / slope^2.      *)
(* The sqrt-frequency values of one table are pairwise distinct (a         *)
(* frequency sweep).                                                       *)
(***************************************************************************)
EXTENDS Integers, Sequences, FiniteSets, TLC

VARIABLES
    files,        \* main: the list of discovered input files (paths)
    out_root,     \* main: target_output_dir
    pc,           \* main: "prepare", "loop", "session" (inside plt.show),
                  \* "done" (line 132), "exit" (an early return of main);
                  \* "save_call", "save_returned" for perform_save alone;
                  \* "analyze_call", "analyze_returned" for run_analysis alone;
                  \* likewise "fit_", "physics_", "unwrap_", "parse_" with
                  \* "call" and "returned" for the other functions alone
    idx,          \* main: position in files of the file being processed (1-based)
    attempts,     \* the files the loop body has been entered for, in order
    errors,       \* the files whose processing error was reported (line 127)
    raw,          \* TWAInteractivePlotter.raw (None outside a session)
    manual_mask,  \* TWAInteractivePlotter.manual_mask
    range_mask,   \* TWAInteractivePlotter.range_mask
    result,       \* TWAInteractivePlotter.result
    line_fit,     \* data of line_fit_phase: None when empty, else the fit drawn
    windows,      \* pyplot: the files whose selector figure is open
    io_faults,    \* environment: the faults a save can meet in this run
    call,         \* a function called alone: its arguments
    dirs,         \* file system: the directories that exist
    fs,           \* file system: path of each file under the output root -> content
    last_save     \* outcome of the last perform_save call of the session

vars == <<files, out_root, pc, idx, attempts, errors, raw, manual_mask,
          range_mask, result, line_fit, windows, io_faults, call, dirs,
          fs,
          last_save>>

\* Python's None and the IEEE values, as records so that they compare with
\* rationals and with result records
None == [none |-> TRUE]
Inf == [inf |-> TRUE]
NaN == [nan |-> TRUE]

\* an Optional argument that is given: its value v, told apart from None
Some(v) == [some |-> v]

(***************************************************************************)
(* Bounds of the model.                                                    *)
(***************************************************************************)
MaxRows == 3
MaxFiles == 2
\* the longest arrays, and the longest index list, handed to a fit alone
MaxFitLen == 4
MaxIndices == 3
\* the longest phase array handed to the unwrap alone
MaxPhase == 4
\* the most lines after the marker line of a file handed to the parser alone
MaxMeta == 2

(***************************************************************************)
(* Floats as rationals.                                                    *)
(***************************************************************************)
Abs(i) == IF i < 0 THEN -i ELSE i

RECURSIVE Gcd(_, _)
Gcd(a, b) == IF b = 0 THEN a ELSE Gcd(b, a % b)

\* the rational n/d, d # 0, in lowest terms with a positive denominator
Rat(n, d) ==
    LET g == Gcd(Abs(n), Abs(d))
        s == IF d < 0 THEN -1 ELSE 1
    IN  [n |-> (s * n) \div g, d |-> (s * d) \div g]

RInt(i) == [n |-> i, d |-> 1]
RMul(p, q) == Rat(p.n * q.n, p.d * q.d)
RDiv(p, q) == Rat(p.n * q.d, p.d * q.n)
RLeq(p, q) == p.n * q.d <= q.n * p.d
RMin(p, q) == IF RLeq(p, q) THEN p ELSE q
RMax(p, q) == IF RLeq(p, q) THEN q ELSE p

\* integer square root of a perfect square
ISqrt(k) == CHOOSE r \in 0..k : r * r = k
\* np.sqrt of a rational that is a perfect square
RSqrt(q) == [n |-> ISqrt(q.n), d |-> ISqrt(q.d)]

\* float comparison a > 0 (False for NaN)
FPos(a) == IF a = NaN THEN FALSE ELSE IF a = Inf THEN TRUE ELSE a.n > 0

(***************************************************************************)
(* Sets and sequences of row positions.                                    *)
(***************************************************************************)
Rows(n) == 0..(n - 1)

SetMin(S) == CHOOSE m \in S : \A k \in S : m <= k

RECURSIVE SortedSeq(_)
\* np.where(mask)[0]: the elements of S in ascending order
SortedSeq(S) ==
    IF S = {} THEN <<>>
    ELSE LET m == SetMin(S) IN <<m>> \o SortedSeq(S \ {m})

SeqSet(s) == {s[i] : i \in 1..Len(s)}

RECURSIVE SumTo(_, _, _, _)
\* the sum of f[s[j]] * g[s[j]] over the first k entries of the index list s
SumTo(f, g, s, k) ==
    IF k = 0 THEN 0 ELSE f[s[k]] * g[s[k]] + SumTo(f, g, s, k - 1)

\* the sum of f[i] * g[i] over the positions i of the index list s
SumProd(f, g, s) == SumTo(f, g, s, Len(s))

RMinOver(vals) == CHOOSE m \in vals : \A v \in vals : RLeq(m, v)
RMaxOver(vals) == CHOOSE m \in vals : \A v \in vals : RLeq(v, m)

(***************************************************************************)
(* Configuration (config.py).                                              *)
(***************************************************************************)
DEFAULT_THICKNESS_UM == 50

\* the least number of points of a fit (fitting.py line 31, analyzer.py
\* line 26, interactive_ui.py line 110)
MinFitPoints == 2

\* the metadata key of the sample thickness (a Japanese literal in the source)
KEY_THICKNESS == "thickness"

\* the configuration object of the repository: it defines the column names
\* and the default thickness, and no KEY_X_POS, KEY_Y_POS, KEY_Z_POS
AppConfig ==
    [COL_FREQ_SQRT |-> "sqrt_TW_freq", COL_AMP |-> "amp", COL_PHASE |-> "theta",
     DEFAULT_THICKNESS_UM |-> DEFAULT_THICKNESS_UM]

\* a configuration that also names the position keys (config.columns.X_POS ...)
PosConfig ==
    [COL_FREQ_SQRT |-> "sqrt_TW_freq", COL_AMP |-> "amp", COL_PHASE |-> "theta",
     DEFAULT_THICKNESS_UM |-> DEFAULT_THICKNESS_UM,
     KEY_X_POS |-> "x_pos", KEY_Y_POS |-> "y_pos", KEY_Z_POS |-> "z_pos"]

\* dict.get(key, default) on a metadata dict of numbers
DictGet(d, key, default) == IF key \in DOMAIN d THEN d[key] ELSE default

\* dict.get(key) as a float, None when the key is absent
DictGetFloat(d, key) == IF key \in DOMAIN d THEN RInt(d[key]) ELSE None

(***************************************************************************)
(* Fitting engine (fitting.py).                                            *)
(***************************************************************************)
FitResult(slope, intercept, r2, is_valid) ==
    [slope |-> slope, intercept |-> intercept, r2 |-> r2, is_valid |-> is_valid]

\* scipy.stats.linregress over the points (x[i], y[i]), i in the index list s,
\* Len(s) >= 2 and the selected x not all equal: the least-squares line
\* from the sums, through the centred moments ssxm, ssxym, ssym
linregress_line(n, Sx, Sy, slope, r2) ==
    FitResult(slope, Rat(Sy * slope.d - slope.n * Sx, n * slope.d), r2, TRUE)

linregress_moments(n, Sx, Sy, ssxm, ssxym, ssym) ==
    linregress_line(n, Sx, Sy, Rat(ssxym, ssxm),
                    IF ssxm = 0 \/ ssym = 0 THEN RInt(0)
                    ELSE Rat(ssxym * ssxym, ssxm * ssym))

\* identical x values: scipy raises ValueError
linregress_sums(n, Sx, Sy, Sxx, Sxy, Syy) ==
    IF n * Sxx - Sx * Sx = 0
    THEN [raised |-> "ValueError"]
    ELSE linregress_moments(n, Sx, Sy, n * Sxx - Sx * Sx, n * Sxy - Sx * Sy,
                            n * Syy - Sy * Sy)

linregress(x, y, s) ==
    linregress_sums(Len(s), SumProd(x, [i \in DOMAIN x |-> 1], s),
                    SumProd(y, [i \in DOMAIN y |-> 1], s),
                    SumProd(x, x, s), SumProd(x, y, s), SumProd(y, y, s))

\* the index list used when indices is None: all positions
AllIndices(x) == SortedSeq(DOMAIN x)

\* a fit without the guard of line 31
linear_regression_subset_unguarded(x, y, indices) ==
    linregress(x, y, IF indices # None THEN indices.some ELSE AllIndices(x))

\* a fit that takes every position whatever indices says
linear_regression_subset_ignoring_indices(x, y, indices) ==
    IF Len(AllIndices(x)) < MinFitPoints
    THEN FitResult(RInt(0), RInt(0), RInt(0), FALSE)
    ELSE linregress(x, y, AllIndices(x))

linear_regression_subset(x, y, indices) ==
    LET s == IF indices # None THEN indices.some ELSE AllIndices(x)
    IN  IF Len(s) < MinFitPoints
        THEN FitResult(RInt(0), RInt(0), RInt(0), FALSE)
        ELSE linregress(x, y, s)

(***************************************************************************)
(* Physics conversion (physics.py).                                        *)
(***************************************************************************)
\* alpha = pi * (thickness_um * 1e-6)^2 / slope^2, in units of pi * 1e-12;
\* a zero slope divides by zero in floating point: Inf, or NaN for 0/0
calculate_alpha_from_slope(slope, thickness_um) ==
    IF slope.n = 0
    THEN IF thickness_um = 0 THEN NaN ELSE Inf
    ELSE Rat(thickness_um * thickness_um * slope.d * slope.d, slope.n * slope.n)

\* kd of one frequency f (a rational): thickness_m * sqrt(pi * f / alpha)
calculate_kd(f, alpha, thickness_um) ==
    IF alpha = NaN THEN RInt(0)
    ELSE IF alpha = Inf THEN RInt(0)
    ELSE IF alpha.n <= 0 THEN RInt(0)
    ELSE RMul(RInt(thickness_um), RSqrt(RDiv(f, alpha)))

\* min(a, b) / max(a, b) of two positive floats
RatioOf(a, b) ==
    IF a = Inf /\ b = Inf THEN NaN
    ELSE IF a = Inf \/ b = Inf THEN RInt(0)
    ELSE RDiv(RMin(a, b), RMax(a, b))

\* np.log of an amplitude e^k, held as its exponent [e |-> k]
NpLog(a) == a.e

(***************************************************************************)
(* Data model (datamodels.py).                                             *)
(***************************************************************************)
\* RawData: df (its three configured columns), metadata, filepath
RawData(x, amp, phase, metadata, filepath) ==
    [x |-> x, amp |-> amp, phase |-> phase, metadata |-> metadata,
     filepath |-> filepath]

\* AnalysisResult with every field at its dataclass default
AnalysisResultDefaults(filename) ==
    [filename |-> filename, samplename |-> None, thickness_um |-> None,
     alpha_phase |-> None, r2_phase |-> None, slope_phase |-> None,
     intercept_phase |-> None,
     alpha_amp |-> None, r2_amp |-> None, slope_amp |-> None,
     intercept_amp |-> None,
     alpha_ratio |-> None,
     x_position |-> None, y_position |-> None, z_position |-> None,
     used_indices |-> <<>>, freq_range_min |-> RInt(0),
     freq_range_max |-> RInt(0), kd_min |-> None, kd_max |-> None]

\* the marker of a raised exception, where a result was expected
Raised(what) == [raised |-> what]

(***************************************************************************)
(* The computation shared, as duplicated code, by the selector and the     *)
(* orchestrator: both fits, both diffusivities, kd bounds, ratio.          *)
(***************************************************************************)
Thickness(rd, config) ==
    DictGet(rd.metadata, KEY_THICKNESS, config.DEFAULT_THICKNESS_UM)

y_amp_log(rd) == [i \in DOMAIN rd.amp |-> NpLog(rd.amp[i])]

\* kd over the frequencies f = x^2 of the index list s
KdValues(rd, s, alpha, thickness) ==
    {calculate_kd(RInt(rd.x[i] * rd.x[i]), alpha, thickness) : i \in SeqSet(s)}

AlphaRatio(alpha_amp, alpha_phase) ==
    IF FPos(alpha_amp) /\ FPos(alpha_phase)
    THEN RatioOf(alpha_amp, alpha_phase)
    ELSE RInt(0)

XSub(rd, s) == {RInt(rd.x[i]) : i \in SeqSet(s)}

(***************************************************************************)
(* Orchestrator (analyzer.py).                                             *)
(***************************************************************************)
\* lines 65-89: the AnalysisResult of a fit, with the positions read
\* through the configuration's keys
AnalysisFields(rd, config, thickness, used_indices, fit_phase, fit_amp, alpha_phase, alpha_amp, kd_values) ==
    IF "KEY_X_POS" \notin DOMAIN config
    THEN Raised("AttributeError")
    ELSE [AnalysisResultDefaults(rd.filepath) EXCEPT
              !.thickness_um = RInt(thickness),
              !.alpha_amp = alpha_amp, !.r2_amp = fit_amp.r2,
              !.slope_amp = fit_amp.slope,
              !.intercept_amp = fit_amp.intercept,
              !.alpha_phase = alpha_phase, !.r2_phase = fit_phase.r2,
              !.slope_phase = fit_phase.slope,
              !.intercept_phase = fit_phase.intercept,
              !.alpha_ratio = AlphaRatio(alpha_amp, alpha_phase),
              !.x_position = DictGetFloat(rd.metadata, config.KEY_X_POS),
              !.y_position = DictGetFloat(rd.metadata, config.KEY_Y_POS),
              !.z_position = DictGetFloat(rd.metadata, config.KEY_Z_POS),
              !.used_indices = used_indices,
              !.freq_range_min = RMinOver(XSub(rd, used_indices)),
              !.freq_range_max = RMaxOver(XSub(rd, used_indices)),
              !.kd_min = RMinOver(kd_values),
              !.kd_max = RMaxOver(kd_values)]

\* lines 37-58: both fits, then both diffusivities, then the kd values
AnalysisOfFits(rd, config, thickness, used_indices, fit_phase, fit_amp) ==
    AnalysisFields(rd, config, thickness, used_indices, fit_phase, fit_amp,
                   calculate_alpha_from_slope(fit_phase.slope, thickness),
                   calculate_alpha_from_slope(fit_amp.slope, thickness),
                   KdValues(rd, used_indices,
                            calculate_alpha_from_slope(fit_phase.slope, thickness),
                            thickness))

\* an insufficient-data branch that hands back the indices it was given
AnalysisOfKeepingIndices(rd, config, thickness, used_indices) ==
    IF Len(used_indices) < MinFitPoints
    THEN [AnalysisResultDefaults(rd.filepath) EXCEPT
              !.thickness_um = RInt(thickness),
              !.used_indices = used_indices,
              !.freq_range_min = RInt(0), !.freq_range_max = RInt(0),
              !.kd_min = RInt(0), !.kd_max = RInt(0)]
    ELSE AnalysisOfFits(rd, config, thickness, used_indices,
             linear_regression_subset(rd.x, rd.phase, Some(used_indices)),
             linear_regression_subset(rd.x, y_amp_log(rd), Some(used_indices)))

AnalysisOf(rd, config, thickness, used_indices) ==
    IF Len(used_indices) < MinFitPoints
    THEN [AnalysisResultDefaults(rd.filepath) EXCEPT
              !.thickness_um = RInt(thickness),
              !.used_indices = <<>>,
              !.freq_range_min = RInt(0), !.freq_range_max = RInt(0),
              !.kd_min = RInt(0), !.kd_max = RInt(0)]
    ELSE AnalysisOfFits(rd, config, thickness, used_indices,
             linear_regression_subset(rd.x, rd.phase, Some(used_indices)),
             linear_regression_subset(rd.x, y_amp_log(rd), Some(used_indices)))

run_analysis(rd, config, used_indices_arg) ==
    AnalysisOf(rd, config, Thickness(rd, config),
               IF used_indices_arg # None THEN used_indices_arg.some
               ELSE AllIndices(rd.x))

(***************************************************************************)
(* Interactive selector (interactive_ui.py): the pure part of              *)
(* update_plot_and_calc.                                                   *)
(***************************************************************************)
\* a selection that forgets the points toggled off: np.where(range_mask)[0]
ActiveIndicesRangeOnly(rmask, mmask) ==
    SortedSeq({i \in DOMAIN rmask : rmask[i]})

\* np.where(range_mask & manual_mask)[0]
ActiveIndices(rmask, mmask) ==
    SortedSeq({i \in DOMAIN rmask : rmask[i] /\ mmask[i]})

\* lines 149-170: the AnalysisResult built for at least 2 active indices
SelectorFields(rd, thickness, active_indices, fit_phase, fit_amp, alpha_phase, alpha_amp, kd_values) ==
    [AnalysisResultDefaults(rd.filepath) EXCEPT
         !.thickness_um = RInt(thickness),
         !.alpha_amp = alpha_amp, !.r2_amp = fit_amp.r2,
         !.slope_amp = fit_amp.slope, !.intercept_amp = fit_amp.intercept,
         !.alpha_phase = alpha_phase, !.r2_phase = fit_phase.r2,
         !.slope_phase = fit_phase.slope,
         !.intercept_phase = fit_phase.intercept,
         !.alpha_ratio = AlphaRatio(alpha_amp, alpha_phase),
         !.used_indices = active_indices,
         !.freq_range_min = RMinOver(XSub(rd, active_indices)),
         !.freq_range_max = RMaxOver(XSub(rd, active_indices)),
         !.kd_min = RMinOver(kd_values),
         !.kd_max = RMaxOver(kd_values)]

\* a selector whose kd values come from the amplitude-derived diffusivity
SelectorOfFitsAmpKd(rd, thickness, active_indices, fit_phase, fit_amp) ==
    SelectorFields(rd, thickness, active_indices, fit_phase, fit_amp,
                   calculate_alpha_from_slope(fit_phase.slope, thickness),
                   calculate_alpha_from_slope(fit_amp.slope, thickness),
                   KdValues(rd, active_indices,
                            calculate_alpha_from_slope(fit_amp.slope, thickness),
                            thickness))

\* lines 117-147: both fits, both diffusivities, the kd values
SelectorOfFits(rd, thickness, active_indices, fit_phase, fit_amp) ==
    SelectorFields(rd, thickness, active_indices, fit_phase, fit_amp,
                   calculate_alpha_from_slope(fit_phase.slope, thickness),
                   calculate_alpha_from_slope(fit_amp.slope, thickness),
                   KdValues(rd, active_indices,
                            calculate_alpha_from_slope(fit_phase.slope, thickness),
                            thickness))

SelectorResult(rd, config, active_indices) ==
    SelectorOfFits(rd, Thickness(rd, config), active_indices,
        linear_regression_subset(rd.x, rd.phase, Some(active_indices)),
        linear_regression_subset(rd.x, y_amp_log(rd), Some(active_indices)))

\* the line drawn at lines 130-131, from the phase fit and the active x
FitLine(slope, intercept, xlo, xhi) ==
    [slope |-> slope, intercept |-> intercept, xmin |-> xlo, xmax |-> xhi]

(***************************************************************************)
(* Input files.  A discovered file is its path (dir, stem, ".txt"), and    *)
(* what is on disk there: kind "ok" (parses to a table with the configured *)
(* columns), "unreadable" (load_from_text raises) or "nocols" (it parses,  *)
(* and the table lacks a configured column); for "ok" the number of rows   *)
(* n, the order of the sweep, the shape of the curves and the metadata.    *)
(* Shapes: "lin" and "bent" fall with the frequency; "flat" has a constant *)
(* phase column; "const" has constant phase and amplitude columns.         *)
(***************************************************************************)
InputDirs == {<<"in">>, <<"in", "sub">>}
Stems == {"s1", "s2"}
Kinds == {"ok", "unreadable", "nocols"}

FileDesc(dir, stem, kind, n, order, shape, meta) ==
    [dir |-> dir, stem |-> stem, kind |-> kind, n |-> n, order |-> order,
     shape |-> shape, meta |-> meta]

\* the path of a file, as RawData.filepath holds it
PathOf(f) == [dir |-> f.dir, stem |-> f.stem, ext |-> ".txt"]

\* the bytes of a source file: those of no other path
SourceBytes(path) == [bytes_of |-> path]

XColumn(n, order) ==
    [i \in Rows(n) |-> IF order = "asc" THEN i + 1 ELSE n - i]

PhaseColumn(x, shape) ==
    [i \in DOMAIN x |->
        CASE shape = "lin" -> -x[i]
          [] shape = "bent" -> -(x[i] * x[i])
          [] shape = "flat" -> 0
          [] shape = "const" -> 0]

\* amplitudes e^k
AmpColumn(x, shape) ==
    [i \in DOMAIN x |->
        CASE shape = "lin" -> [e |-> -x[i]]
          [] shape = "bent" -> [e |-> -2 * x[i]]
          [] shape = "flat" -> [e |-> -x[i]]
          [] shape = "const" -> [e |-> 0]]

\* the tables on disk: the order of the sweep, the curves, the metadata
Variants ==
    {[order |-> "asc", shape |-> "lin", meta |-> <<>>],
     [order |-> "desc", shape |-> "bent",
      meta |-> [thickness |-> 2, x_pos |-> 5, y_pos |-> 6, z_pos |-> 7]],
     [order |-> "asc", shape |-> "flat", meta |-> <<>>],
     [order |-> "asc", shape |-> "const", meta |-> <<>>]}

OkFiles(dirset, stems, ns) ==
    {FileDesc(d, s, "ok", n, v.order, v.shape, v.meta) :
        d \in dirset, s \in stems, n \in ns, v \in Variants}

\* what load_from_text returns for an "ok" or "nocols" file
load_from_text(f) ==
    LET x == XColumn(f.n, f.order)
    IN  RawData(x, AmpColumn(x, f.shape), PhaseColumn(x, f.shape), f.meta,
                PathOf(f))

(***************************************************************************)
(* File system.                                                            *)
(***************************************************************************)
\* every non-empty prefix of a path
Prefixes(path) == {SubSeq(path, 1, k) : k \in 1..Len(path)}

Front(path) == SubSeq(path, 1, Len(path) - 1)

\* a creation of the last segment alone, as os.mkdir does
mkdir_leaf(ds, path) == ds \cup {path}

\* os.makedirs(path, exist_ok=True)
makedirs(ds, path) == ds \cup Prefixes(path)

\* the state of a save in progress: directories, files, whether a step raised
SaveState(ds, f, exc) == [dirs |-> ds, fs |-> f, exc |-> exc]

PutFile(f, path, content) ==
    [p \in DOMAIN f \cup {path} |-> IF p = path THEN content ELSE f[p]]

\* open(path, 'w') and write content; fails, leaving the file as it was,
\* when the directory is missing or when the environment fails this step
WriteFile(st, path, content, fails) ==
    IF st.exc THEN st
    ELSE IF Front(path) \notin st.dirs \/ fails
    THEN SaveState(st.dirs, st.fs, TRUE)
    ELSE SaveState(st.dirs, PutFile(st.fs, path, content), FALSE)

\* a step that creates a missing directory before writing into it
EnsureDir(st, dir) ==
    IF st.exc THEN st ELSE SaveState(makedirs(st.dirs, dir), st.fs, FALSE)

\* the steps of a save the environment can fail (a read-only or full
\* destination, an unreadable source, a failing plot backend), "none" for
\* a save the environment lets through
Faults ==
    {"none", "makedirs", "results", "input", "copy", "phase_plot", "amp_plot"}

FaultAt(fault, step) == fault = step

(***************************************************************************)
(* Persistence (datamodels.py, visualizer.py, TWA_cal.perform_save).       *)
(***************************************************************************)
\* AnalysisResult.save_to_json(output_dir)
save_to_json(st, res, output_dir, fault) ==
    WriteFile(IF output_dir \in st.dirs THEN st ELSE EnsureDir(st, output_dir),
              output_dir \o <<"results.json">>, [json |-> res], fault)

\* RawData.save_input_data(output_dir)
save_input_data(st, rd, output_dir, fault) ==
    WriteFile(IF output_dir \in st.dirs THEN st ELSE EnsureDir(st, output_dir),
              output_dir \o <<"input_data.json">>, [input |-> rd], fault)

\* shutil.copy(src, dst)
copy(st, src, dst, fault) == WriteFile(st, dst, SourceBytes(src), fault)

\* visualizer.save_phase_plot / save_amplitude_plot: a plot of the result
save_plot(st, res, output_dir, name, fault) ==
    WriteFile(IF output_dir \in st.dirs THEN st ELSE EnsureDir(st, output_dir),
              output_dir \o <<name>>,
              [plot |-> name, used |-> res.used_indices], fault)

\* os.path.splitext(os.path.basename(filepath))[0]
case_name(filepath) == filepath.stem

CaseDir(root, filepath) == root \o <<case_name(filepath)>>

\* the try block of perform_save, lines 17-41; fault is the step the
\* environment fails, if any
perform_save_steps(ds, f, rd, res, root, fault) ==
    LET case_dir == CaseDir(root, rd.filepath)
        s0 == SaveState(ds, f, FALSE)
        s1 == IF FaultAt(fault, "makedirs")
              THEN SaveState(ds, f, TRUE)
              ELSE EnsureDir(s0, case_dir)
        s2 == save_to_json(s1, res, case_dir, FaultAt(fault, "results"))
        s3 == save_input_data(s2, rd, case_dir, FaultAt(fault, "input"))
        s4 == copy(s3, rd.filepath, case_dir \o <<"raw_data.txt">>,
                   FaultAt(fault, "copy"))
        s5 == save_plot(s4, res, case_dir, "phase_plot.png",
                        FaultAt(fault, "phase_plot"))
        s6 == save_plot(s5, res, case_dir, "amplitude_plot.png",
                        FaultAt(fault, "amp_plot"))
    IN  s6

\* a save without the try block: an exception of a step leaves perform_save
perform_save_uncaught(ds, f, rd, res, root, fault) ==
    IF res = None
    THEN [dirs |-> ds, fs |-> f, status |-> "skipped"]
    ELSE [dirs |-> perform_save_steps(ds, f, rd, res, root, fault).dirs,
          fs |-> perform_save_steps(ds, f, rd, res, root, fault).fs,
          status |-> IF perform_save_steps(ds, f, rd, res, root, fault).exc
                     THEN "raised" ELSE "ok"]

\* perform_save: what it leaves behind, and how it ends: "skipped" (no
\* result), "ok", "reported" (an exception caught and printed at line 45);
\* "raised" would be an exception leaving perform_save
perform_save(ds, f, rd, res, root, fault) ==
    IF res = None
    THEN [dirs |-> ds, fs |-> f, status |-> "skipped"]
    ELSE LET st == perform_save_steps(ds, f, rd, res, root, fault)
         IN  [dirs |-> st.dirs, fs |-> st.fs,
              status |-> IF st.exc THEN "reported" ELSE "ok"]

(***************************************************************************)
(* Interactive selector: state changes.                                    *)
(***************************************************************************)
\* every table load_from_text can return in this model
Tables ==
    {load_from_text(f) : f \in OkFiles(InputDirs, Stems, 0..MaxRows)}

\* the index lists np.where can return over n rows that allow a fit
FitLists(n) ==
    {SortedSeq(S) : S \in {T \in SUBSET Rows(n) : Cardinality(T) >= MinFitPoints}}

\* SelectorResult under the configuration main passes, tabulated: the
\* values are computed once, when the model is loaded
selector_results ==
    [rd \in Tables |->
        [s \in FitLists(Cardinality(DOMAIN rd.x)) |->
            SelectorResult(rd, AppConfig, s)]]

\* a recomputation that, short of points, stores a result without fits in
\* place of the one held
update_plot_and_calc_storing_short(rd, rmask, mmask, old_result) ==
    IF Len(ActiveIndices(rmask, mmask)) < MinFitPoints
    THEN [result |-> [AnalysisResultDefaults(rd.filepath) EXCEPT
                          !.used_indices = ActiveIndices(rmask, mmask)],
          line_fit |-> None]
    ELSE [result |-> selector_results[rd][ActiveIndices(rmask, mmask)],
          line_fit |-> FitLine(selector_results[rd][ActiveIndices(rmask, mmask)].slope_phase,
                               selector_results[rd][ActiveIndices(rmask, mmask)].intercept_phase,
                               selector_results[rd][ActiveIndices(rmask, mmask)].freq_range_min,
                               selector_results[rd][ActiveIndices(rmask, mmask)].freq_range_max)]

\* update_plot_and_calc, lines 102-170: the result and the fit line it
\* leaves, from the masks and the result held before
update_plot_and_calc(rd, rmask, mmask, old_result) ==
    LET active_indices == ActiveIndices(rmask, mmask)
    IN  IF Len(active_indices) < MinFitPoints
        THEN [result |-> old_result, line_fit |-> None]
        ELSE LET r == selector_results[rd][active_indices]
             IN  [result |-> r,
                  line_fit |-> FitLine(r.slope_phase, r.intercept_phase,
                                       r.freq_range_min, r.freq_range_max)]

\* a range mask that leaves out the rows on the upper limit
RangeMaskExclusive(x, xmin, xmax) == [i \in DOMAIN x |-> x[i] >= xmin /\ x[i] < xmax]

\* line 89: (x_data >= xmin) & (x_data <= xmax)
RangeMask(x, xmin, xmax) == [i \in DOMAIN x |-> x[i] >= xmin /\ x[i] <= xmax]

\* a pick that flips the first picked row alone
ToggleMaskFirstOnly(mmask, ind) ==
    [i \in DOMAIN mmask |-> IF i = SetMin(ind) THEN ~mmask[i] ELSE mmask[i]]

\* a pick that only excludes: the picked rows are cleared, not flipped
ToggleMaskClearing(mmask, ind) ==
    [i \in DOMAIN mmask |-> IF i \in ind THEN FALSE ELSE mmask[i]]

\* line 96: manual_mask[ind] = ~manual_mask[ind]
ToggleMask(mmask, ind) ==
    [i \in DOMAIN mmask |-> IF i \in ind THEN ~mmask[i] ELSE mmask[i]]

\* the span limits a drag can produce over the plotted axis
SpanLimits == 0..(MaxRows + 1)

InSession == pc = "session"

on_range_select(xmin, xmax) ==
    /\ InSession
    /\ LET rmask == RangeMask(raw.x, xmin, xmax)
           u == update_plot_and_calc(raw, rmask, manual_mask, result)
       IN  /\ range_mask' = rmask
           /\ result' = u.result
           /\ line_fit' = u.line_fit
    /\ UNCHANGED <<windows, io_faults, call, files, out_root, pc, idx, attempts, errors, raw,
                   manual_mask, dirs, fs, last_save>>

\* a pick event on the all-points scatter, for the row positions ind
on_point_pick(ind) ==
    /\ InSession
    /\ LET mmask == ToggleMask(manual_mask, ind)
           u == update_plot_and_calc(raw, range_mask, mmask, result)
       IN  /\ manual_mask' = mmask
           /\ result' = u.result
           /\ line_fit' = u.line_fit
    /\ UNCHANGED <<windows, io_faults, call, files, out_root, pc, idx, attempts, errors, raw,
                   range_mask, dirs, fs, last_save>>

\* a pick event on another artist: line 93 returns
on_point_pick_other ==
    /\ InSession
    /\ UNCHANGED vars

\* a Save that repoints the data it holds at another source file
save_result_repointing(fault) ==
    /\ InSession
    /\ result # None
    /\ LET s == perform_save(dirs, fs, raw, result, out_root, fault)
       IN  /\ dirs' = s.dirs
           /\ fs' = s.fs
           /\ last_save' = s.status
    /\ raw' = [raw EXCEPT !.filepath.stem = "s2"]
    /\ UNCHANGED <<windows, io_faults, call, files, out_root, pc, idx, attempts, errors,
                   manual_mask, range_mask, result, line_fit>>

\* save_result, with the callback main installs (perform_save on out_root)
save_result(fault) ==
    /\ InSession
    /\ result # None
    /\ LET s == perform_save(dirs, fs, raw, result, out_root, fault)
       IN  /\ dirs' = s.dirs
           /\ fs' = s.fs
           /\ last_save' = s.status
    /\ UNCHANGED <<windows, io_faults, call, files, out_root, pc, idx, attempts, errors, raw,
                   manual_mask, range_mask, result, line_fit>>

\* save_result with no result held: neither branch of lines 174-178 acts
save_result_none ==
    /\ InSession
    /\ result = None
    /\ UNCHANGED vars

\* a Complete that persists the held result on the way out, as a Save does
on_complete_saving ==
    /\ InSession
    /\ LET s == perform_save(dirs, fs, raw, result, out_root, "none")
       IN  /\ dirs' = s.dirs
           /\ fs' = s.fs
           /\ last_save' = s.status
    /\ windows' = windows \ {idx}
    /\ manual_mask' = <<>>
    /\ range_mask' = <<>>
    /\ line_fit' = None
    /\ pc' = "loop"
    /\ idx' = idx + 1
    /\ UNCHANGED <<io_faults, call, files, out_root, attempts, errors, raw,
                   result>>

\* on_complete, or the window closed: plt.show() returns, the constructor
\* returns and the loop of main goes on.  main keeps the plotter, and with
\* it the result; no event reaches the masks and the line of a closed
\* figure again, and they are dropped here
on_complete ==
    /\ InSession
    /\ windows' = windows \ {idx}
    /\ manual_mask' = <<>>
    /\ range_mask' = <<>>
    /\ line_fit' = None
    /\ pc' = "loop"
    /\ idx' = idx + 1
    /\ UNCHANGED <<io_faults, call, files, out_root, attempts, errors, raw, result,
                   dirs, fs, last_save>>

(***************************************************************************)
(* Batch driver (TWA_cal.main).                                            *)
(***************************************************************************)
\* lines 81-106: no files, or the output directory and its creation
PrepareOutput(mkdir_fails) ==
    /\ pc = "prepare"
    /\ IF files = <<>>
       THEN pc' = "exit" /\ dirs' = dirs
       ELSE IF out_root \in dirs
       THEN pc' = "loop" /\ dirs' = dirs
       ELSE IF mkdir_fails
       THEN pc' = "exit" /\ dirs' = dirs
       ELSE pc' = "loop" /\ dirs' = makedirs(dirs, out_root)
    /\ UNCHANGED <<windows, io_faults, call, files, out_root, idx, attempts, errors, raw, manual_mask,
                   range_mask, result, line_fit, fs, last_save>>

AtFile == pc = "loop" /\ idx <= Len(files)

\* a loop whose error branch returns from main instead of continuing
LoadFailsAborting ==
    /\ AtFile
    /\ files[idx].kind = "unreadable"
    /\ attempts' = Append(attempts, idx)
    /\ errors' = Append(errors, idx)
    /\ pc' = "exit"
    /\ UNCHANGED <<windows, io_faults, call, files, out_root, idx, raw,
                   manual_mask, range_mask, result, line_fit, dirs, fs,
                   last_save>>

\* lines 112-129 when load_from_text raises: reported, next file
LoadFails ==
    /\ AtFile
    /\ files[idx].kind = "unreadable"
    /\ attempts' = Append(attempts, idx)
    /\ errors' = Append(errors, idx)
    /\ idx' = idx + 1
    /\ UNCHANGED <<windows, io_faults, call, files, out_root, pc, raw, manual_mask, range_mask, result,
                   line_fit, dirs, fs, last_save>>

\* lines 112-129 when the constructor raises (line 18, a missing column)
OpenFails ==
    /\ AtFile
    /\ files[idx].kind = "nocols"
    /\ attempts' = Append(attempts, idx)
    /\ errors' = Append(errors, idx)
    /\ idx' = idx + 1
    /\ UNCHANGED <<windows, io_faults, call, files, out_root, pc, raw, manual_mask, range_mask, result,
                   line_fit, dirs, fs, last_save>>

\* a constructor whose plt.show() does not block: the loop goes on with
\* the figure open
OpenSessionNonBlocking ==
    /\ AtFile
    /\ files[idx].kind = "ok"
    /\ attempts' = Append(attempts, idx)
    /\ raw' = load_from_text(files[idx])
    /\ windows' = windows \cup {idx}
    /\ idx' = idx + 1
    /\ UNCHANGED <<io_faults, call, files, out_root, pc, errors, manual_mask,
                   range_mask, result, line_fit, dirs, fs, last_save>>

\* lines 112-124 and the constructor up to plt.show(): the session opens
OpenSession ==
    /\ AtFile
    /\ files[idx].kind = "ok"
    /\ attempts' = Append(attempts, idx)
    /\ LET rd == load_from_text(files[idx])
           ones == [i \in DOMAIN rd.x |-> TRUE]
           u == update_plot_and_calc(rd, ones, ones, None)
       IN  /\ raw' = rd
           /\ manual_mask' = ones
           /\ range_mask' = ones
           /\ result' = u.result
           /\ line_fit' = u.line_fit
    /\ last_save' = "none"
    /\ windows' = windows \cup {idx}
    /\ pc' = "session"
    /\ UNCHANGED <<io_faults, call, files, out_root, idx, errors, dirs, fs>>

\* line 131: the loop is over
LoopEnd ==
    /\ pc = "loop"
    /\ idx > Len(files)
    /\ pc' = "done"
    /\ UNCHANGED <<windows, io_faults, call, files, out_root, idx, attempts, errors, raw, manual_mask,
                   range_mask, result, line_fit, dirs, fs, last_save>>

(***************************************************************************)
(* Specifications.                                                         *)
(***************************************************************************)
\* the state of main once the files are discovered, for the list fl
InitWith(fl, root, ds, faults) ==
    /\ files = fl
    /\ io_faults = faults
    /\ call = None
    /\ out_root = root
    /\ pc = "prepare"
    /\ idx = 1
    /\ attempts = <<>>
    /\ errors = <<>>
    /\ raw = None
    /\ manual_mask = <<>>
    /\ range_mask = <<>>
    /\ result = None
    /\ line_fit = None
    /\ windows = {}
    /\ dirs = ds
    /\ fs = <<>>
    /\ last_save = "none"

\* what varies with the table of the one input file: the table and where
\* the results go
Scenarios ==
    {[variant |-> [order |-> "asc", shape |-> "lin", meta |-> <<>>],
      root |-> <<"out">>, dirs |-> {<<"out">>}],
     [variant |-> [order |-> "desc", shape |-> "bent",
                   meta |-> [thickness |-> 2, x_pos |-> 5, y_pos |-> 6,
                             z_pos |-> 7]],
      root |-> <<"out", "run">>, dirs |-> {<<"out">>}],
     [variant |-> [order |-> "asc", shape |-> "const", meta |-> <<>>],
      root |-> <<"out">>, dirs |-> {<<"out">>}]}

\* one input file, in an environment whose saves do not fail
Init ==
    \E sc \in Scenarios, k \in Kinds, n \in 0..MaxRows :
        /\ k # "ok" => n = 0
        /\ InitWith(<<FileDesc(<<"in">>, "s1", k, n, sc.variant.order,
                               sc.variant.shape, sc.variant.meta)>>,
                    sc.root, sc.dirs, {"none"})

Events ==
    \/ \E xmin, xmax \in SpanLimits : xmin <= xmax /\ on_range_select(xmin, xmax)
    \/ \E ind \in SUBSET DOMAIN manual_mask : ind # {} /\ on_point_pick(ind)
    \/ on_point_pick_other
    \/ \E fault \in io_faults : save_result(fault)
    \/ save_result_none
    \/ on_complete

Next ==
    \/ \E mkdir_fails \in BOOLEAN : PrepareOutput(mkdir_fails)
    \/ LoadFails
    \/ OpenFails
    \/ OpenSession
    \/ LoopEnd
    \/ Events

Spec == Init /\ [][Next]_vars

(***************************************************************************)
(* The batch: up to MaxFiles discovered files, each unreadable, without    *)
(* the configured columns, or a table of the fewest rows that fit; every   *)
(* save of the run meets the same fault of the environment, if any.        *)
(***************************************************************************)
\* the order in which glob returns what it finds under the input directory
DiscoveryOrder ==
    <<[dir |-> <<"in">>, stem |-> "s1"], [dir |-> <<"in", "sub">>, stem |-> "s1"],
      [dir |-> <<"in">>, stem |-> "s2"], [dir |-> <<"in", "sub">>, stem |-> "s2"]>>

\* what a batch file holds: no table, or a table one row short of a fit,
\* or a table of the fewest rows that fit
BatchContents ==
    {[kind |-> "unreadable", n |-> 0], [kind |-> "nocols", n |-> 0],
     [kind |-> "ok", n |-> MinFitPoints - 1], [kind |-> "ok", n |-> MinFitPoints]}

BatchFile(k, c) ==
    FileDesc(DiscoveryOrder[k].dir, DiscoveryOrder[k].stem, c.kind, c.n,
             "asc", "lin", <<>>)

BatchInit ==
    \E count \in 0..MaxFiles :
        \E contents \in [1..count -> BatchContents], fault \in Faults :
            InitWith([k \in 1..count |-> BatchFile(k, contents[k])],
                     <<"out">>, {}, {fault})

SpecBatch == BatchInit /\ [][Next]_vars

(***************************************************************************)
(* perform_save alone: called once with a table, a result of it or None,   *)
(* an output root and a file system in which the root may be missing.      *)
(***************************************************************************)
SaveRoots ==
    {[root |-> <<"out">>, dirs |-> {}],
     [root |-> <<"out">>, dirs |-> {<<"out">>}],
     [root |-> <<"out">>, dirs |-> {<<"out">>, <<"out", "s1">>}],
     [root |-> <<"out", "run">>, dirs |-> {}],
     [root |-> <<"out", "run">>, dirs |-> {<<"out">>}]}

SaveInit ==
    \E rd \in {load_from_text(f) :
                  f \in OkFiles({<<"in">>}, {"s1"}, MinFitPoints..MaxRows)},
       where \in SaveRoots, fault \in Faults :
        \E res \in {None} \cup {selector_results[rd][s] :
                                   s \in FitLists(Cardinality(DOMAIN rd.x))} :
            /\ files = <<>>
            /\ out_root = where.root
            /\ pc = "save_call"
            /\ idx = 1
            /\ attempts = <<>>
            /\ errors = <<>>
            /\ raw = rd
            /\ manual_mask = <<>>
            /\ range_mask = <<>>
            /\ result = res
            /\ line_fit = None
            /\ windows = {}
            /\ io_faults = {fault}
            /\ call = None
            /\ dirs = where.dirs
            /\ fs = <<>>
            /\ last_save = "none"

\* one call perform_save(raw, result, out_root)
perform_save_call(fault) ==
    /\ pc = "save_call"
    /\ LET s == perform_save(dirs, fs, raw, result, out_root, fault)
       IN  /\ dirs' = s.dirs
           /\ fs' = s.fs
           /\ last_save' = s.status
    /\ pc' = "save_returned"
    /\ UNCHANGED <<windows, io_faults, call, files, out_root, idx, attempts, errors,
                   raw, manual_mask, range_mask, result, line_fit>>

NextSave == \E fault \in io_faults : perform_save_call(fault)

SpecSave == SaveInit /\ [][NextSave]_vars

(***************************************************************************)
(* run_analysis alone: called once with a table, a configuration and an    *)
(* index list (None for the default), positions beyond the table included. *)
(***************************************************************************)
\* the index lists too short for a fit; an index need not be a row
ShortLists == {<<>>} \cup {<<i>> : i \in 0..MaxRows}

AnalyzeInit ==
    \E rd \in Tables, config \in {AppConfig, PosConfig} :
        \E omitted \in BOOLEAN,
           used \in ShortLists \cup FitLists(Cardinality(DOMAIN rd.x)) :
            /\ omitted => used = <<>>
            /\ files = <<>>
            /\ out_root = <<"out">>
            /\ pc = "analyze_call"
            /\ idx = 1
            /\ attempts = <<>>
            /\ errors = <<>>
            /\ raw = rd
            /\ manual_mask = <<>>
            /\ range_mask = <<>>
            /\ result = None
            /\ line_fit = None
            /\ windows = {}
            /\ io_faults = {"none"}
            /\ call = [config |-> config,
                       used_indices |-> IF omitted THEN None ELSE Some(used)]
            /\ dirs = {}
            /\ fs = <<>>
            /\ last_save = "none"

\* one call run_analysis(raw, config, used_indices)
run_analysis_call ==
    /\ pc = "analyze_call"
    /\ result' = run_analysis(raw, call.config, call.used_indices)
    /\ pc' = "analyze_returned"
    /\ UNCHANGED <<windows, io_faults, call, files, out_root, idx, attempts,
                   errors, raw, manual_mask, range_mask, line_fit, dirs, fs,
                   last_save>>

NextAnalyze == run_analysis_call

SpecAnalyze == AnalyzeInit /\ [][NextAnalyze]_vars

(***************************************************************************)
(* linear_regression_subset alone: called once with two arrays of equal    *)
(* length and an index list of valid positions (repeats allowed), or None. *)
(* The y values lie on a line a * x + b, but for at most one bumped row.   *)
(***************************************************************************)
XShapes == {"asc", "desc", "same", "pairs"}

FitX(n, shape) ==
    [i \in Rows(n) |->
        CASE shape = "asc" -> i
          [] shape = "desc" -> n - 1 - i
          [] shape = "same" -> 1
          [] shape = "pairs" -> i \div 2]

FitY(x, a, b, bump) ==
    [i \in DOMAIN x |-> a * x[i] + b + (IF i = bump THEN 1 ELSE 0)]

\* the index lists of at most MaxIndices valid positions of n rows
IndexLists(n) == UNION {[1..k -> Rows(n)] : k \in 0..MaxIndices}

FitInit ==
    \E n \in 0..MaxFitLen, shape \in XShapes, a \in {-2, 0, 2}, b \in {0, 1} :
        \E bump \in -1..(n - 1), omitted \in BOOLEAN, s \in IndexLists(n) :
            /\ omitted => s = <<>>
            /\ files = <<>>
            /\ out_root = <<"out">>
            /\ pc = "fit_call"
            /\ idx = 1
            /\ attempts = <<>>
            /\ errors = <<>>
            /\ raw = None
            /\ manual_mask = <<>>
            /\ range_mask = <<>>
            /\ result = None
            /\ line_fit = None
            /\ windows = {}
            /\ io_faults = {"none"}
            /\ call = [x |-> FitX(n, shape),
                       y |-> FitY(FitX(n, shape), a, b, bump),
                       indices |-> IF omitted THEN None ELSE Some(s)]
            /\ dirs = {}
            /\ fs = <<>>
            /\ last_save = "none"

\* one call linear_regression_subset(x, y, indices)
linear_regression_subset_call ==
    /\ pc = "fit_call"
    /\ result' = linear_regression_subset(call.x, call.y, call.indices)
    /\ pc' = "fit_returned"
    /\ UNCHANGED <<windows, io_faults, call, files, out_root, idx, attempts,
                   errors, raw, manual_mask, range_mask, line_fit, dirs, fs,
                   last_save>>

NextFit == linear_regression_subset_call

SpecFit == FitInit /\ [][NextFit]_vars

(***************************************************************************)
(* The physics conversions alone: one call of calculate_alpha_from_slope   *)
(* or of calculate_kd.  A slope is a Python float ("float", as the         *)
(* signature says) or a numpy scalar ("float64", as linregress returns);   *)
(* the division by slope**2 = 0 raises ZeroDivisionError for the first     *)
(* and gives inf or nan for the second.                                    *)
(***************************************************************************)
FloatKinds == {"float", "float64"}

\* calculate_alpha_from_slope on a slope of the given kind
calculate_alpha_from_slope_of(kind, slope, thickness_um) ==
    IF kind = "float" /\ slope.n = 0
    THEN Raised("ZeroDivisionError")
    ELSE calculate_alpha_from_slope(slope, thickness_um)

\* calculate_kd over an array of frequencies
calculate_kd_array(freq_array, alpha, thickness_um) ==
    [i \in DOMAIN freq_array |->
        calculate_kd(RInt(freq_array[i]), alpha, thickness_um)]

\* the diffusivities handed to calculate_kd: negative, zero, positive,
\* infinite, not a number
KdAlphas == {RInt(-1), RInt(0), RInt(1), RInt(4), Inf, NaN}

PhysicsCalls ==
    {[fn |-> "alpha", kind |-> k, slope |-> RInt(sl), thickness_um |-> t] :
        k \in FloatKinds, sl \in -2..2, t \in {0, 2, DEFAULT_THICKNESS_UM}}
    \cup
    {[fn |-> "kd", freq_array |-> f, alpha |-> a, thickness_um |-> 2] :
        f \in UNION {[Rows(n) -> {0, 1, 4}] : n \in 0..MaxRows},
        a \in KdAlphas}

PhysicsInit ==
    \E c \in PhysicsCalls :
        /\ files = <<>>
        /\ out_root = <<"out">>
        /\ pc = "physics_call"
        /\ idx = 1
        /\ attempts = <<>>
        /\ errors = <<>>
        /\ raw = None
        /\ manual_mask = <<>>
        /\ range_mask = <<>>
        /\ result = None
        /\ line_fit = None
        /\ windows = {}
        /\ io_faults = {"none"}
        /\ call = c
        /\ dirs = {}
        /\ fs = <<>>
        /\ last_save = "none"

calculate_alpha_from_slope_call ==
    /\ pc = "physics_call"
    /\ call.fn = "alpha"
    /\ result' = calculate_alpha_from_slope_of(call.kind, call.slope,
                                               call.thickness_um)
    /\ pc' = "physics_returned"
    /\ UNCHANGED <<windows, io_faults, call, files, out_root, idx, attempts,
                   errors, raw, manual_mask, range_mask, line_fit, dirs, fs,
                   last_save>>

calculate_kd_call ==
    /\ pc = "physics_call"
    /\ call.fn = "kd"
    /\ result' = calculate_kd_array(call.freq_array, call.alpha,
                                    call.thickness_um)
    /\ pc' = "physics_returned"
    /\ UNCHANGED <<windows, io_faults, call, files, out_root, idx, attempts,
                   errors, raw, manual_mask, range_mask, line_fit, dirs, fs,
                   last_save>>

NextPhysics == calculate_alpha_from_slope_call \/ calculate_kd_call

SpecPhysics == PhysicsInit /\ [][NextPhysics]_vars

(***************************************************************************)
(* Phase unwrap (file_parser.py).  A phase is held in halves of a radian,  *)
(* so that differences are exact as they are in binary floating point,     *)
(* plus a whole number of periods: [h |-> 7, k |-> -1] is 3.5 - pi.  It    *)
(* may also be nan (an empty cell of the table).  The array is of dtype    *)
(* float64, or int64 when every cell of the column is a whole number.      *)
(***************************************************************************)
\* threshold = 3.0, in halves
THRESHOLD_HALVES == 6

Phase(h, k) == [h |-> h, k |-> k]

\* a float that is a number of units (halves, or periods): told apart
\* from nan by its field
Num(i) == [v |-> i]

\* a difference of v halves of a radian and p periods
Diff(v, p) == [v |-> v, p |-> p]

\* np.diff: the adjacent differences; nan where a term is nan
NpDiff(phase_data) ==
    [i \in {j \in DOMAIN phase_data : j + 1 \in DOMAIN phase_data} |->
        IF phase_data[i] = NaN \/ phase_data[i + 1] = NaN THEN NaN
        ELSE Diff(phase_data[i + 1].h - phase_data[i].h,
                  phase_data[i + 1].k - phase_data[i].k)]

\* np.abs(diff) > threshold: False for nan; pi taken as 355/113, so that
\* the difference is (113 v + 710 p) / 226 radians
ExceedsThreshold(d) ==
    IF d = NaN THEN FALSE
    ELSE Abs(113 * d.v + 710 * d.p) > 113 * THRESHOLD_HALVES

\* np.round(d / pi) of d halves: floor(d / (2 pi) + 1/2), pi taken as 355/113
\* (no tie is possible, and the approximation decides every |d| < 1000)
RoundPeriods(d) ==
    IF d >= 0 THEN (113 * d + 355) \div 710
    ELSE -((113 * (-d) + 355) \div 710)

\* k = np.round(diff / period) * mask: nan * False is nan
PeriodCount(d) ==
    IF d = NaN THEN NaN
    ELSE IF ExceedsThreshold(d) THEN Num(d.p + RoundPeriods(d.v)) ELSE Num(0)

\* one more term of np.cumsum(-k * period), in periods
AddCorrection(sum, k) ==
    IF sum = NaN \/ k = NaN THEN NaN ELSE Num(sum.v - k.v)

RECURSIVE CumulativeCorrection(_, _)
\* np.cumsum(-k * period) up to position i, in periods; nan once a term is
CumulativeCorrection(diff, i) ==
    IF i < 0 THEN Num(0)
    ELSE AddCorrection(CumulativeCorrection(diff, i - 1), PeriodCount(diff[i]))

\* an addition of twice the correction
CorrectedTwice(v, c) ==
    IF v = NaN \/ c = NaN THEN NaN ELSE Phase(v.h, v.k + 2 * c.v)

\* unwrapped[1:] += cumulative_correction, entry i >= 1
Corrected(v, c) ==
    IF v = NaN \/ c = NaN THEN NaN ELSE Phase(v.h, v.k + c.v)

\* the in-place addition of a float64 array into an int64 array is refused
\* by numpy (casting rule same_kind)
unwrap_phase_custom(phase_data, dtype) ==
    IF dtype = "int64"
    THEN Raised("UFuncTypeError")
    ELSE [i \in DOMAIN phase_data |->
            IF i = 0 THEN phase_data[i]
            ELSE Corrected(phase_data[i],
                           CumulativeCorrection(NpDiff(phase_data), i - 1))]

\* the phases of the arrays: steps below, at and above the threshold
PhaseHalves == {-6, 0, 1, 6, 7, 13}

PhaseArrays(n, dtype) ==
    IF dtype = "int64"
    THEN [Rows(n) -> {Phase(h, 0) : h \in {q \in PhaseHalves : q % 2 = 0}}]
    ELSE [Rows(n) -> {Phase(h, 0) : h \in PhaseHalves} \cup {NaN}]

UnwrapInit ==
    \E n \in 0..MaxPhase, dtype \in {"float64", "int64"} :
        \E phase_data \in PhaseArrays(n, dtype) :
            /\ dtype = "int64" => n >= 2
            /\ files = <<>>
            /\ out_root = <<"out">>
            /\ pc = "unwrap_call"
            /\ idx = 1
            /\ attempts = <<>>
            /\ errors = <<>>
            /\ raw = None
            /\ manual_mask = <<>>
            /\ range_mask = <<>>
            /\ result = None
            /\ line_fit = None
            /\ windows = {}
            /\ io_faults = {"none"}
            /\ call = [phase_data |-> phase_data, dtype |-> dtype]
            /\ dirs = {}
            /\ fs = <<>>
            /\ last_save = "none"

\* one call unwrap_phase_custom(phase_data) with the default period and
\* threshold
unwrap_phase_custom_call ==
    /\ pc = "unwrap_call"
    /\ result' = unwrap_phase_custom(call.phase_data, call.dtype)
    /\ pc' = "unwrap_returned"
    /\ UNCHANGED <<windows, io_faults, call, files, out_root, idx, attempts,
                   errors, raw, manual_mask, range_mask, line_fit, dirs, fs,
                   last_save>>

NextUnwrap == unwrap_phase_custom_call

SpecUnwrap == UnwrapInit /\ [][NextUnwrap]_vars

(***************************************************************************)
(* Parser (file_parser.py), on the text of a file.  A text is a sequence   *)
(* of characters (one-character strings); a file is the sequence of its    *)
(* lines, each without its line end.  "BAD" is a byte that is not UTF-8.   *)
(* Literals of the source are abbreviated: the marker "sample information" *)
(* to "s i" (two words and the space between them), the phase column name  *)
(* "theta" to "t".  Numbers are written with the digits 0, 1, 5, a sign    *)
(* and a decimal point.                                                    *)
(***************************************************************************)
MARKER == <<"s", " ", "i">>
PHASE_COL_NAME == <<"t">>
SEP == "\t"

IsSpace(c) == c \in {" ", "\t"}

\* open(..., errors='ignore'): the bytes that do not decode are dropped
NotBad(c) == c # "BAD"
Decode(bytes) == [k \in DOMAIN bytes |-> SelectSeq(bytes[k], NotBad)]

RECURSIVE LStrip(_)
LStrip(t) ==
    IF t = <<>> THEN <<>>
    ELSE IF IsSpace(Head(t)) THEN LStrip(Tail(t)) ELSE t

RECURSIVE RStrip(_)
RStrip(t) ==
    IF t = <<>> THEN <<>>
    ELSE IF IsSpace(t[Len(t)]) THEN RStrip(SubSeq(t, 1, Len(t) - 1)) ELSE t

\* str.strip()
Strip(t) == RStrip(LStrip(t))

\* pattern in text
Contains(t, pat) ==
    \E i \in 1..(Len(t) - Len(pat) + 1) : SubSeq(t, i, i + Len(pat) - 1) = pat

\* the positions of c in t
PositionsOf(t, c) == {i \in 1..Len(t) : t[i] = c}

RECURSIVE Split(_, _)
\* str.split(sep): every field, the empty ones included
Split(t, sep) ==
    IF PositionsOf(t, sep) = {} THEN <<t>>
    ELSE <<SubSeq(t, 1, SetMin(PositionsOf(t, sep)) - 1)>>
         \o Split(SubSeq(t, SetMin(PositionsOf(t, sep)) + 1, Len(t)), sep)

\* the positions of white space in t
SpacesOf(t) == {i \in 1..Len(t) : IsSpace(t[i])}

\* str.split(None, 1) of a text without leading white space: the first word,
\* and what follows the white space after it
SplitOnce(t) ==
    IF t = <<>> THEN <<>>
    ELSE IF SpacesOf(t) = {} THEN <<t>>
    ELSE IF LStrip(SubSeq(t, SetMin(SpacesOf(t)), Len(t))) = <<>>
         THEN <<SubSeq(t, 1, SetMin(SpacesOf(t)) - 1)>>
    ELSE <<SubSeq(t, 1, SetMin(SpacesOf(t)) - 1),
           LStrip(SubSeq(t, SetMin(SpacesOf(t)), Len(t)))>>

Digits == {"0", "1", "5"}
DigitValue(c) == CASE c = "0" -> 0 [] c = "1" -> 1 [] c = "5" -> 5

RECURSIVE Numeral(_)
\* the value of a sequence of digits
Numeral(t) ==
    IF t = <<>> THEN 0
    ELSE 10 * Numeral(SubSeq(t, 1, Len(t) - 1)) + DigitValue(t[Len(t)])

RECURSIVE Pow10(_)
Pow10(k) == IF k = 0 THEN 1 ELSE 10 * Pow10(k - 1)

AllDigits(t) == \A i \in 1..Len(t) : t[i] \in Digits

\* float() of an unsigned text: digits, at most one point, a digit at least
UnsignedFloat(t, parts) ==
    IF Len(parts) > 2 THEN Raised("ValueError")
    ELSE IF \E k \in 1..Len(parts) : ~AllDigits(parts[k])
         THEN Raised("ValueError")
    ELSE IF Len(t) = Cardinality(PositionsOf(t, "."))
         THEN Raised("ValueError")
    ELSE IF Len(parts) = 1 THEN Rat(Numeral(parts[1]), 1)
    ELSE Rat(Numeral(parts[1] \o parts[2]), Pow10(Len(parts[2])))

\* the sign applied to a parsed number
Negated(q) == IF "raised" \in DOMAIN q THEN q ELSE Rat(-q.n, q.d)

\* float(text): the number, or ValueError
ParseFloat(t) ==
    IF Strip(t) = <<>> THEN Raised("ValueError")
    ELSE IF Head(Strip(t)) = "-"
         THEN Negated(UnsignedFloat(Tail(Strip(t)), Split(Tail(Strip(t)), ".")))
    ELSE UnsignedFloat(Strip(t), Split(Strip(t), "."))

\* the position of the last line that contains the marker, 0 without one
separator_idx_last(lines) ==
    IF \E i \in 1..Len(lines) : Contains(lines[i], MARKER)
    THEN CHOOSE i \in 1..Len(lines) :
            /\ Contains(lines[i], MARKER)
            /\ \A j \in 1..Len(lines) : Contains(lines[j], MARKER) => j <= i
    ELSE 0

\* lines 81-86: the position of the first line that contains the marker,
\* 0 when there is none (the source holds positions from 0, and -1)
separator_idx(lines) ==
    IF \E i \in 1..Len(lines) : Contains(lines[i], MARKER)
    THEN SetMin({i \in 1..Len(lines) : Contains(lines[i], MARKER)})
    ELSE 0

\* line 89: lines[:separator_idx], or all lines
data_lines(lines) ==
    IF separator_idx(lines) # 0
    THEN SubSeq(lines, 1, separator_idx(lines) - 1)
    ELSE lines

\* line 116: lines[separator_idx+1:]
meta_lines(lines) ==
    IF separator_idx(lines) # 0
    THEN SubSeq(lines, separator_idx(lines) + 1, Len(lines))
    ELSE <<>>

NotEmptyLine(l) == l # <<>>

\* pd.read_csv of well-formed lines (the header fields distinct, each row of
\* as many fields as the header): blank lines skipped, the first line left
\* is the header; nothing left is an EmptyDataError
read_csv_of(kept) ==
    IF kept = <<>> THEN Raised("EmptyDataError")
    ELSE [columns |-> Split(kept[1], SEP),
          rows |-> [k \in 1..(Len(kept) - 1) |-> Split(kept[k + 1], SEP)]]

read_csv(lines) == read_csv_of(SelectSeq(lines, NotEmptyLine))

\* os.path.commonprefix: the longest text every name starts with
SharedLengths(names) ==
    {k \in 0..Len(names[1]) :
        \A j \in 1..Len(names) :
            Len(names[j]) >= k /\ SubSeq(names[j], 1, k) = SubSeq(names[1], 1, k)}

commonprefix(names) ==
    SubSeq(names[1], 1,
           CHOOSE k \in SharedLengths(names) : \A m \in SharedLengths(names) : m <= k)

\* col.replace(prefix, "", 1): without the first occurrence of prefix
ReplaceFirstAt(col, prefix, at) ==
    IF at = {} THEN col
    ELSE SubSeq(col, 1, SetMin(at) - 1)
         \o SubSeq(col, SetMin(at) + Len(prefix), Len(col))

ReplaceFirst(col, prefix) ==
    ReplaceFirstAt(col, prefix,
        {i \in 1..(Len(col) - Len(prefix) + 1) :
            SubSeq(col, i, i + Len(prefix) - 1) = prefix})

\* lines 100-106: the prefix removed when it is not empty and shorter than
\* every name
WithoutPrefix(cols, prefix) ==
    IF prefix # <<>> /\ \A j \in 1..Len(cols) : Len(prefix) < Len(cols[j])
    THEN [j \in 1..Len(cols) |-> ReplaceFirst(cols[j], prefix)]
    ELSE cols

\* lines 94-106: the column names stripped, then without their common prefix
StrippedColumns(cols) == [j \in 1..Len(cols) |-> Strip(cols[j])]

RenamedColumns(cols) ==
    IF Len(cols) > 1
    THEN WithoutPrefix(StrippedColumns(cols), commonprefix(StrippedColumns(cols)))
    ELSE StrippedColumns(cols)

\* a cell of the phase column, a decimal that is a whole number of halves
PhaseOfCell(q) == Phase((2 * q.n) \div q.d, 0)

\* lines 58-74, 109-110: the values of the phase column after the unwrap,
\* None when no column has the name (the cells of the column are decimals)
adjust_phase_continuity(columns, rows) ==
    IF \E j \in 1..Len(columns) : columns[j] = PHASE_COL_NAME
    THEN unwrap_phase_custom(
            [i \in Rows(Len(rows)) |->
                PhaseOfCell(ParseFloat(
                    rows[i + 1][CHOOSE j \in 1..Len(columns) :
                                    columns[j] = PHASE_COL_NAME]))],
            "float64")
    ELSE None

\* lines 118-135: the entry of one line after the marker, as a sequence (an
\* entry or none): the parts, then the float of the second
MetaEntryOfParts(parts) ==
    IF Len(parts) < 2 THEN <<>>
    ELSE IF "raised" \in DOMAIN ParseFloat(Strip(parts[2])) THEN <<>>
    ELSE <<[key |-> Strip(parts[1]), val |-> ParseFloat(Strip(parts[2]))]>>

\* lines 122-125 without the fallback on white space
MetaPartsTabOnly(line) == Split(line, SEP)

\* lines 122-125: the parts between tabs, or around the first white space
MetaParts(line) ==
    IF Len(Split(line, SEP)) < 2 THEN SplitOnce(line) ELSE Split(line, SEP)

MetaEntry(line) ==
    IF Strip(line) = <<>> THEN <<>> ELSE MetaEntryOfParts(MetaParts(Strip(line)))

RECURSIVE MetaDict(_, _)
\* lines 114-135: the dict after the first k lines; a later line of the same
\* key replaces the value
MetaDict(lines, k) ==
    IF k = 0 THEN <<>>
    ELSE IF MetaEntry(lines[k]) = <<>> THEN MetaDict(lines, k - 1)
    ELSE [key \in DOMAIN MetaDict(lines, k - 1) \cup {MetaEntry(lines[k])[1].key} |->
            IF key = MetaEntry(lines[k])[1].key THEN MetaEntry(lines[k])[1].val
            ELSE MetaDict(lines, k - 1)[key]]

ParsedData(df, metadata, filepath) ==
    [df |-> df, metadata |-> metadata, filepath |-> filepath]

\* lines 93-137, from the table read
load_from_table(table, lines, filepath) ==
    IF "raised" \in DOMAIN table THEN table
    ELSE ParsedData(
            [columns |-> RenamedColumns(table.columns), rows |-> table.rows,
             phase |-> adjust_phase_continuity(RenamedColumns(table.columns),
                                               table.rows)],
            MetaDict(meta_lines(lines), Len(meta_lines(lines))), filepath)

\* lines 88-137, from the decoded lines
load_from_lines(lines, filepath) ==
    load_from_table(read_csv(data_lines(lines)), lines, filepath)

\* load_from_text on a file of the given bytes
load_from_text_bytes(filepath, bytes) == load_from_lines(Decode(bytes), filepath)

(***************************************************************************)
(* load_from_text alone: called once on a file made of a table block (a    *)
(* header line and rows, or nothing), then possibly a marker line and up   *)
(* to MaxMeta lines after it; every line of the file may hold a byte that  *)
(* is not UTF-8 (in files of at most one line after the marker).  Each     *)
(* line after the marker comes with what the metadata                      *)
(* should get from it: whether it is a numeric key/value line, its key and *)
(* its value.                                                              *)
(***************************************************************************)
\* header lines of two columns: plain, with a common prefix, with a prefix
\* and white space, with a prefix followed by a space in one name, with a
\* prefix that is one of the names
HeaderLines ==
    {<<"a", "\t", "t">>,
     <<"f", "a", "\t", "f", "t">>,
     <<" ", "f", "a", " ", "\t", " ", "f", "t">>,
     <<"f", " ", "a", "\t", "f", "b">>,
     <<"f", "a", "\t", "f", "a", "b">>}

\* the rows under a header of two columns; the second cell is a decimal
RowBlocks ==
    {<<>>,
     <<<<"k", "\t", "5", ".", "0">>, <<>>, <<"0", ".", "5", "\t", "0", ".", "5">>>>}

\* the lines of a file before its marker line: nothing, a blank line, one
\* column with or without a row, or two columns
TableBlocks ==
    {<<>>, << <<>> >>, << <<"a">> >>, << <<"a">>, <<"0", ".", "5">> >>}
    \cup {<<h>> \o rows : h \in HeaderLines, rows \in RowBlocks}

\* marker lines: the marker alone, inside a longer text, before a number
MarkerLines ==
    {<<"s", " ", "i">>, <<"a", "s", " ", "i", "b">>, <<"s", " ", "i", "\t", "5">>}

MetaLibrary ==
    {[text |-> <<"k", "\t", "5">>, numeric |-> TRUE, key |-> <<"k">>, val |-> [n |-> 5, d |-> 1]],
     [text |-> <<"k", " ", "1">>, numeric |-> TRUE, key |-> <<"k">>, val |-> [n |-> 1, d |-> 1]],
     [text |-> <<" ", "b", "\t", " ", "5", " ">>, numeric |-> TRUE, key |-> <<"b">>, val |-> [n |-> 5, d |-> 1]],
     [text |-> <<"k", "\t", "a", "b">>, numeric |-> FALSE, key |-> <<>>, val |-> [n |-> 0, d |-> 1]],
     [text |-> <<"k">>, numeric |-> FALSE, key |-> <<>>, val |-> [n |-> 0, d |-> 1]],
     [text |-> <<" ">>, numeric |-> FALSE, key |-> <<>>, val |-> [n |-> 0, d |-> 1]],
     [text |-> <<"b", "\t", "1", "\t", "a">>, numeric |-> TRUE, key |-> <<"b">>, val |-> [n |-> 1, d |-> 1]],
     [text |-> <<"k", " ", "5", " ", "a">>, numeric |-> FALSE, key |-> <<>>, val |-> [n |-> 0, d |-> 1]],
     [text |-> <<"s", " ", "i", "\t", "5">>, numeric |-> TRUE, key |-> <<"s", " ", "i">>, val |-> [n |-> 5, d |-> 1]],
     [text |-> <<"a", "\t", "-", "1", ".", "5">>, numeric |-> TRUE, key |-> <<"a">>, val |-> [n |-> -3, d |-> 2]]}

\* the line with a byte that does not decode after its first character
Corrupted(line) ==
    IF line = <<>> THEN line ELSE <<Head(line), "BAD">> \o Tail(line)

FileBytes(block, mark, meta, bad) ==
    [k \in 1..(Len(block) + Len(mark) + Len(meta)) |->
        IF bad THEN Corrupted((block \o mark \o [j \in DOMAIN meta |-> meta[j].text])[k])
        ELSE (block \o mark \o [j \in DOMAIN meta |-> meta[j].text])[k]]

ParseInit ==
    \E block \in TableBlocks, bad \in BOOLEAN :
        \E mark \in {<<>>} \cup {<<m>> : m \in MarkerLines},
           meta \in UNION {[1..k -> MetaLibrary] : k \in 0..MaxMeta} :
            /\ mark = <<>> => meta = <<>>
            /\ bad => Len(meta) <= 1
            /\ files = <<>>
            /\ out_root = <<"out">>
            /\ pc = "parse_call"
            /\ idx = 1
            /\ attempts = <<>>
            /\ errors = <<>>
            /\ raw = None
            /\ manual_mask = <<>>
            /\ range_mask = <<>>
            /\ result = None
            /\ line_fit = None
            /\ windows = {}
            /\ io_faults = {"none"}
            /\ call = [filepath |-> [dir |-> <<"in">>, stem |-> "s1", ext |-> ".txt"],
                       bytes |-> FileBytes(block, mark, meta, bad),
                       block |-> block, mark |-> mark, meta |-> meta,
                       bad |-> bad]
            /\ dirs = {}
            /\ fs = <<>>
            /\ last_save = "none"

\* one call load_from_text(filepath)
load_from_text_call ==
    /\ pc = "parse_call"
    /\ result' = load_from_text_bytes(call.filepath, call.bytes)
    /\ pc' = "parse_returned"
    /\ UNCHANGED <<windows, io_faults, call, files, out_root, idx, attempts,
                   errors, raw, manual_mask, range_mask, line_fit, dirs, fs,
                   last_save>>

NextParse == load_from_text_call

SpecParse == ParseInit /\ [][NextParse]_vars

(***************************************************************************)
(* Properties of the selector session (specification Spec).                *)
(***************************************************************************)
\* the row positions where range_mask and manual_mask are both true
ActivePositions == {i \in DOMAIN range_mask : range_mask[i] /\ manual_mask[i]}

\* None, or a result that carries no selection
IsEmptyMarker(r) == IF r = None THEN TRUE ELSE r.used_indices = <<>>

\* results.json of the file of the session
ResultsPath == CaseDir(out_root, raw.filepath) \o <<"results.json">>

\* a step of a session in which a save acted on the destination
SaveStep ==
    /\ InSession
    /\ pc' = "session"
    /\ <<dirs', fs', last_save'>> # <<dirs, fs, last_save>>

\* the session of the last attempted file is over
SessionEnded == pc \in {"loop", "done"} /\ raw # None

\* C1, as stated: whenever fewer than 2 points are active in a session, the
\* fit line is cleared and the held result is the empty marker, never a
\* result computed from an earlier selection.
C1_FewPointsClearResult ==
    (InSession /\ Cardinality(ActivePositions) < MinFitPoints)
        => (line_fit = None /\ IsEmptyMarker(result))

\* C2, as stated: every Save of a session writes, as results.json, the held
\* result, and that result is the one of the current masks: its
\* used_indices are the positions where both masks are true.
C2_SavePersistsResultOfMasks ==
    [][SaveStep =>
          /\ ResultsPath \in DOMAIN fs'
          /\ fs'[ResultsPath] = [json |-> result]
          /\ SeqSet(result.used_indices) = ActivePositions]_vars

C5_HeldEqualsAnalysis ==
    InSession =>
        result = run_analysis(raw, AppConfig,
                              Some(ActiveIndices(range_mask, manual_mask)))

(***************************************************************************)
(* Properties of the batch (specification SpecBatch).                      *)
(***************************************************************************)
\* the files 1..k, in list order
FirstFiles(k) == [j \in 1..k |-> j]

\* the files among 1..k that cannot be loaded or opened, in list order
FailingAmong(k) == SelectSeq(FirstFiles(k), LAMBDA j : files[j].kind # "ok")

\* C6: the files attempted so far are the first files of the list, each
\* once and in list order; the errors reported are those of the attempted
\* files that cannot be loaded or opened; after an attempt that failed, as
\* after a session, the loop stands at the next file and can take its next
\* step; the loop is done only with every file attempted, and only an empty
\* list or an output directory that cannot be created, never a file, makes
\* main return early.
C6_EachFileOnceInOrder ==
    /\ Len(attempts) <= Len(files)
    /\ attempts = FirstFiles(Len(attempts))
    /\ errors = FailingAmong(Len(attempts))
    /\ pc = "loop" =>
          /\ Len(attempts) = idx - 1
          /\ ENABLED (LoadFails \/ OpenFails \/ OpenSession \/ LoopEnd)
    /\ pc = "session" => Len(attempts) = idx
    /\ pc = "done" => Len(attempts) = Len(files)
    /\ pc = "exit" => attempts = <<>>

\* the loop is done over a full list whose first file failed and whose
\* last file was attempted after it
C6_DoneAfterError ==
    /\ pc = "done"
    /\ Len(files) = MaxFiles
    /\ errors # <<>>
    /\ errors[1] = 1
    /\ attempts[Len(attempts)] = MaxFiles

C8_SaveFailureIsReported ==
    /\ [](last_save \in {"none", "skipped", "ok", "reported"})
    /\ [][(InSession /\ last_save' # last_save /\ pc' = "session") =>
             /\ last_save' = (IF io_faults = {"none"} THEN "ok" ELSE "reported")
             /\ windows' = windows
             /\ <<idx', attempts', errors'>> = <<idx, attempts, errors>>
             /\ ENABLED on_complete]_vars

\* the session of the second file is open, after a save of the first file
\* that failed while writing input_data.json
C8_NextFileAfterFailedSave ==
    /\ InSession
    /\ idx = 2
    /\ io_faults = {"input"}
    /\ CaseDir(out_root, PathOf(files[1])) \o <<"results.json">> \in DOMAIN fs
    /\ CaseDir(out_root, PathOf(files[1])) \o <<"input_data.json">> \notin DOMAIN fs

(***************************************************************************)
(* Properties of perform_save alone (specification SpecSave).              *)
(***************************************************************************)
\* the directory perform_save writes into
SaveDir == CaseDir(out_root, raw.filepath)

\* the environment lets the directory and the three data files through
DataStepsHealthy == io_faults \cap {"makedirs", "results", "input", "copy"} = {}

\* C9: a save of a result, in an environment that lets the directory and
\* the three data files through, returns without an exception leaving it,
\* and afterwards every segment of the destination exists, results.json
\* holds the result, input_data.json the table, and raw_data.txt the bytes
\* of the source file.
C9_SaveCreatesDestination ==
    (pc = "save_returned" /\ result # None /\ DataStepsHealthy) =>
        /\ last_save \in {"ok", "reported"}
        /\ Prefixes(SaveDir) \subseteq dirs
        /\ {SaveDir \o <<"results.json">>, SaveDir \o <<"input_data.json">>,
            SaveDir \o <<"raw_data.txt">>} \subseteq DOMAIN fs
        /\ fs[SaveDir \o <<"results.json">>] = [json |-> result]
        /\ fs[SaveDir \o <<"input_data.json">>] = [input |-> raw]
        /\ fs[SaveDir \o <<"raw_data.txt">>] = SourceBytes(raw.filepath)

\* a save has returned whose destination is nested, and of which no
\* segment existed before: the output root is <<"out", "run">>, and the
\* directories that exist are exactly those the save created
C9_NestedDestinationCreated ==
    /\ pc = "save_returned"
    /\ last_save = "ok"
    /\ out_root = <<"out", "run">>
    /\ dirs = Prefixes(SaveDir)
    /\ SaveDir \o <<"raw_data.txt">> \in DOMAIN fs

(***************************************************************************)
(* Properties of run_analysis alone (specification SpecAnalyze).           *)
(***************************************************************************)
\* the index list run_analysis works on: the one given, or all rows
EffectiveIndices ==
    IF call.used_indices = None THEN AllIndices(raw.x)
    ELSE call.used_indices.some

\* C10: run_analysis on fewer than 2 indices returns a result, not an
\* exception, whose used_indices are empty, whose range and kd bounds are
\* 0, and whose fit fields (slope, intercept, r2, diffusivity, of phase and
\* of amplitude) and ratio are None.
C10_ShortSelectionEmptyResult ==
    (pc = "analyze_returned" /\ Len(EffectiveIndices) < 2) =>
        /\ "raised" \notin DOMAIN result
        /\ result.used_indices = <<>>
        /\ result.freq_range_min = RInt(0) /\ result.freq_range_max = RInt(0)
        /\ result.kd_min = RInt(0) /\ result.kd_max = RInt(0)
        /\ \A field \in {"slope_phase", "intercept_phase", "r2_phase",
                         "alpha_phase", "slope_amp", "intercept_amp",
                         "r2_amp", "alpha_amp", "alpha_ratio"} :
               result[field] = None

\* run_analysis has returned from a call with the one index 3, on a table
\* of 3 rows
C10_OneIndexGiven ==
    /\ pc = "analyze_returned"
    /\ call.used_indices = Some(<<3>>)
    /\ Cardinality(DOMAIN raw.x) = 3
    /\ result.used_indices = <<>>

\* C11, as stated: run_analysis called with the repository's configuration
\* object on at least 2 indices returns a result (no exception) whose
\* x_position, y_position, z_position are the metadata values under the
\* keys "x_pos", "y_pos", "z_pos", None where the metadata has no such key.
C11_PositionsFromMetadata ==
    (pc = "analyze_returned" /\ call.config = AppConfig
        /\ Len(EffectiveIndices) >= MinFitPoints) =>
        /\ "raised" \notin DOMAIN result
        /\ result.x_position = DictGetFloat(raw.metadata, "x_pos")
        /\ result.y_position = DictGetFloat(raw.metadata, "y_pos")
        /\ result.z_position = DictGetFloat(raw.metadata, "z_pos")

(***************************************************************************)
(* Properties of a computed result, of the orchestrator (SpecAnalyze) or   *)
(* of the selector (Spec).                                                 *)
(***************************************************************************)
\* the variable result holds a result with fits (not None, not an
\* exception, not the result of an insufficient selection)
IsComputed(r) ==
    IF r = None THEN FALSE
    ELSE IF "raised" \in DOMAIN r THEN FALSE
    ELSE r.alpha_ratio # None

\* a float that is a number in (0, 1]
InUnitInterval(q) ==
    IF q = NaN \/ q = Inf THEN FALSE ELSE 0 < q.n /\ q.n <= q.d

\* C12, as stated: in every computed result the ratio lies in (0, 1] when
\* both diffusivities are positive, is exactly 1 when they are equal, and
\* is exactly 0 when either diffusivity is not positive.
C12_RatioInUnitInterval ==
    IsComputed(result) =>
        IF FPos(result.alpha_amp) /\ FPos(result.alpha_phase)
        THEN /\ InUnitInterval(result.alpha_ratio)
             /\ result.alpha_amp = result.alpha_phase
                    => result.alpha_ratio = RInt(1)
        ELSE result.alpha_ratio = RInt(0)

(***************************************************************************)
(* Properties of linear_regression_subset alone (specification SpecFit).   *)
(***************************************************************************)
\* the index list a fit works on: the one given, or all positions
FitIndices ==
    IF call.indices = None THEN AllIndices(call.x) ELSE call.indices.some

\* C13: a fit over fewer than 2 selected points (the empty list, one
\* index, or no list on arrays of fewer than 2 rows) returns, without
\* raising, FitResult(0, 0, 0, is_valid = False).
C13_ShortSubsetInvalidFit ==
    (pc = "fit_returned" /\ Len(FitIndices) < 2) =>
        result = FitResult(RInt(0), RInt(0), RInt(0), FALSE)

\* a fit has returned from a call with the one index 2 on arrays of 4 rows
C13_SingleIndexGiven ==
    /\ pc = "fit_returned"
    /\ call.indices = Some(<<2>>)
    /\ Cardinality(DOMAIN call.x) = 4
    /\ result.is_valid = FALSE

\* the selected x values are not all the same
NonConstantX ==
    \E i, j \in SeqSet(FitIndices) : call.x[i] # call.x[j]

\* the selected points lie exactly on one line that is not vertical
OnOneLine ==
    \A i, j, k \in SeqSet(FitIndices) :
        (call.y[j] - call.y[i]) * (call.x[k] - call.x[i])
            = (call.y[k] - call.y[i]) * (call.x[j] - call.x[i])

\* two selected positions of different x
TwoPoints ==
    CHOOSE pq \in SeqSet(FitIndices) \X SeqSet(FitIndices) :
        call.x[pq[1]] # call.x[pq[2]]

\* the a and the b of the line y = a * x + b through the two points
LineSlope ==
    Rat(call.y[TwoPoints[2]] - call.y[TwoPoints[1]],
        call.x[TwoPoints[2]] - call.x[TwoPoints[1]])

LineIntercept ==
    Rat(call.y[TwoPoints[1]] * (call.x[TwoPoints[2]] - call.x[TwoPoints[1]])
            - call.x[TwoPoints[1]]
                * (call.y[TwoPoints[2]] - call.y[TwoPoints[1]]),
        call.x[TwoPoints[2]] - call.x[TwoPoints[1]])

\* C14, as stated: a fit over at least 2 selected points that lie exactly
\* on a line y = a * x + b, the selected x not all equal, returns slope a,
\* intercept b, r2 = 1 and is_valid = True.
C14_ExactLineRecovered ==
    (pc = "fit_returned" /\ Len(FitIndices) >= 2 /\ NonConstantX /\ OnOneLine)
        => result = FitResult(LineSlope, LineIntercept, RInt(1), TRUE)

\* C14, amended: such a fit returns slope a, intercept b and is_valid =
\* True; r2 is 1 when a # 0, and 0 when a = 0 (the selected y are all the
\* same, and linregress reports the correlation of a constant as 0).
C14_ExactLineRecoveredSloped ==
    (pc = "fit_returned" /\ Len(FitIndices) >= 2 /\ NonConstantX /\ OnOneLine)
        => result = FitResult(LineSlope, LineIntercept,
                              IF LineSlope = RInt(0) THEN RInt(0) ELSE RInt(1),
                              TRUE)

\* the fit of x = [0, 1, 2, 3], y = [1, 3, 5, 7] without indices has
\* returned slope 2, intercept 1, r2 1
C14_ExampleFitted ==
    /\ pc = "fit_returned"
    /\ call.indices = None
    /\ call.x = [i \in 0..3 |-> i]
    /\ call.y = [i \in 0..3 |-> 2 * i + 1]
    /\ result = FitResult(RInt(2), RInt(1), RInt(1), TRUE)

(***************************************************************************)
(* Properties of the physics conversions alone (specification SpecPhysics).*)
(***************************************************************************)
\* alpha <= 0, or alpha not finite
DegenerateAlpha(a) ==
    IF a = NaN \/ a = Inf THEN TRUE ELSE a.n <= 0

\* C15, as stated: calculate_alpha_from_slope of a slope that is exactly 0
\* returns a value that is not finite, and raises nothing; calculate_kd of
\* a diffusivity that is <= 0 or not finite returns zeros, one for each
\* frequency of its input.
C15_DegenerateInputsNeverRaise ==
    pc = "physics_returned" =>
        /\ (call.fn = "alpha" /\ call.slope = RInt(0))
               => (result = Inf \/ result = NaN)
        /\ (call.fn = "kd" /\ DegenerateAlpha(call.alpha))
               => result = [i \in DOMAIN call.freq_array |-> RInt(0)]

(***************************************************************************)
(* Properties of the phase unwrap alone (specification SpecUnwrap).        *)
(***************************************************************************)
\* no adjacent difference of the input is greater, in absolute value, than
\* the threshold
NoStepExceeds ==
    \A i \in DOMAIN NpDiff(call.phase_data) :
        ~ExceedsThreshold(NpDiff(call.phase_data)[i])

\* C20, as stated: the unwrap of a phase sequence none of whose adjacent
\* differences exceeds the threshold (a difference equal to the threshold
\* does not exceed it) returns the sequence unchanged.
C20_ContinuousPhaseUnchanged ==
    (pc = "unwrap_returned" /\ NoStepExceeds) => result = call.phase_data

(***************************************************************************)
(* Properties of load_from_text alone (specification SpecParse).           *)
(***************************************************************************)
\* load_from_text has returned a RawData
Parsed == pc = "parse_returned" /\ "raised" \notin DOMAIN result

\* the lines before the marker line that are not blank
TableLines == SelectSeq(call.block, NotEmptyLine)

\* the keys of the numeric key/value lines among the lines after the marker
NumericKeys == {call.meta[j].key : j \in {i \in DOMAIN call.meta : call.meta[i].numeric}}

\* the last numeric key/value line of a key
LastLineOf(key) ==
    CHOOSE j \in DOMAIN call.meta :
        /\ call.meta[j].numeric /\ call.meta[j].key = key
        /\ \A i \in DOMAIN call.meta :
               (call.meta[i].numeric /\ call.meta[i].key = key) => i <= j

\* C16: the table is made of the lines before the first marker line (one
\* header and one row for each further line that is not blank), and the
\* metadata only of lines after it: the marker line gives no row and no
\* entry; without a marker line every line is a table line and the
\* metadata is empty.
C16_SplitAtFirstMarker ==
    (pc = "parse_returned" /\ TableLines # <<>>) =>
        /\ "raised" \notin DOMAIN result
        /\ Len(result.df.rows) = Len(TableLines) - 1
        /\ \A k \in 1..Len(result.df.rows) :
               result.df.rows[k] = Split(TableLines[k + 1], SEP)
        /\ DOMAIN result.metadata = NumericKeys
        /\ call.mark = <<>> => result.metadata = <<>>

\* a file whose marker line reads "s i<tab>5", with a row of first cell k
\* before it and the line "k 1" after it, was parsed: the metadata is k -> 1
C16_MarkerLineInNeither ==
    /\ Parsed
    /\ call.mark = << <<"s", " ", "i", "\t", "5">> >>
    /\ Len(call.meta) = 1 /\ call.meta[1].text = <<"k", " ", "1">>
    /\ Len(result.df.rows) = 2
    /\ DOMAIN result.metadata = {<<"k">>}
    /\ result.metadata[<<"k">>] = RInt(1)

\* C17: every numeric key/value line after the marker gives its trimmed
\* key an entry, whose value is the number of the last such line of the
\* key; the other lines (a second part that is no number, fewer than 2
\* parts, blank) give no entry and no error.
C17_MetadataIsNumericLines ==
    (pc = "parse_returned" /\ call.mark # <<>> /\ TableLines # <<>>) =>
        /\ "raised" \notin DOMAIN result
        /\ \A j \in DOMAIN call.meta :
               call.meta[j].numeric => call.meta[j].key \in DOMAIN result.metadata
        /\ \A key \in DOMAIN result.metadata :
               /\ key \in NumericKeys
               /\ result.metadata[key] = call.meta[LastLineOf(key)].val

\* the lines "k<tab>ab" and "k 1" after the marker were parsed: the
\* metadata is k -> 1
C17_FallbackAfterDropped ==
    /\ Parsed
    /\ Len(call.meta) = 2
    /\ call.meta[1].text = <<"k", "\t", "a", "b">>
    /\ call.meta[2].text = <<"k", " ", "1">>
    /\ DOMAIN result.metadata = {<<"k">>}
    /\ result.metadata[<<"k">>] = RInt(1)

\* the file holds a byte that is not UTF-8
HasBadByte == \E k \in DOMAIN call.bytes : "BAD" \in SeqSet(call.bytes[k])

\* C18, as stated: load_from_text raises when the file cannot be decoded
\* as text, and when there is no header line to split into columns.
C18_UndecodableOrNoHeaderFails ==
    (pc = "parse_returned" /\ (HasBadByte \/ TableLines = <<>>))
        => "raised" \in DOMAIN result

\* C19, as stated: the column names of a parsed table of more than one
\* column are stripped of white space, not empty, and share no common
\* prefix that is not empty.
C19_ColumnNamesClean ==
    (Parsed /\ Len(result.df.columns) > 1) =>
        /\ \A j \in 1..Len(result.df.columns) :
               /\ Strip(result.df.columns[j]) = result.df.columns[j]
               /\ result.df.columns[j] # <<>>
        /\ commonprefix(result.df.columns) = <<>>

\* the correction count of one difference as the description gives it:
\* round(d / P) when |d| > T, and 0 otherwise
StatedCount(d) == IF ExceedsThreshold(d) THEN d.p + RoundPeriods(d.v) ELSE 0

RECURSIVE StatedCorrection(_, _)
\* the sum over j <= i of -k_j, in periods
StatedCorrection(diff, i) ==
    IF i < 0 THEN 0
    ELSE StatedCorrection(diff, i - 1) - StatedCount(diff[i])

\* C21, as stated, for an array of floats: the unwrap returns an array of
\* the length of its input, whose sample 0 is that of the input and whose
\* sample i >= 1 is the input's plus the sum over j < i of -k_j periods,
\* k_j = round(d[j] / P) when |d[j]| > T and 0 otherwise, d taken on the
\* input.
C21_UnwrapIsRunningCorrection ==
    (pc = "unwrap_returned" /\ call.dtype = "float64") =>
        /\ DOMAIN result = DOMAIN call.phase_data
        /\ \A i \in DOMAIN call.phase_data :
               result[i] =
                   IF i = 0 \/ call.phase_data[i] = NaN THEN call.phase_data[i]
                   ELSE Phase(call.phase_data[i].h,
                              StatedCorrection(NpDiff(call.phase_data), i - 1))
(***************************************************************************)
(* The data of a session.                                                  *)
(***************************************************************************)
\* C22: while a session is open, no step (a range selection, a pick, a
\* save, the analysis each of them runs, Complete) changes the table, the
\* metadata or the source path of the data the session was opened on.
C22_RawDataUnchangedInSession == [][InSession => raw' = raw]_vars

\* a session in which range selection, pick and save have all acted
C22_SelectedPickedSaved ==
    /\ InSession
    /\ raw # None
    /\ result # None
    /\ last_save = "ok"
    /\ \E i \in DOMAIN manual_mask : ~manual_mask[i]
    /\ \E i \in DOMAIN range_mask : ~range_mask[i]

(***************************************************************************)
(* The bounds of a computed result.                                        *)
(***************************************************************************)
\* kd at f = x^2 of row i, from the phase-derived diffusivity of r
KdAtRow(r, i) ==
    calculate_kd(RInt(raw.x[i] * raw.x[i]), r.alpha_phase, Thickness(raw, AppConfig))

\* q is the least (greatest) of the values val(i), i an index of s
IsMinOver(q, vals) == q \in vals /\ \A v \in vals : RLeq(q, v)
IsMaxOver(q, vals) == q \in vals /\ \A v \in vals : RLeq(v, q)

\* C25: in a computed result with at least 2 used indices, kd_min and kd_max
\* are the least and the greatest kd at f = x^2 over exactly the used
\* indices, taken with the phase-derived diffusivity; kd_min <= kd_max; and
\* freq_range_min, freq_range_max are the least and the greatest x over the
\* same indices.
C25_KdBoundsOverUsedIndices ==
    (IsComputed(result) /\ Len(result.used_indices) >= MinFitPoints) =>
        /\ IsMinOver(result.kd_min,
                     {KdAtRow(result, i) : i \in SeqSet(result.used_indices)})
        /\ IsMaxOver(result.kd_max,
                     {KdAtRow(result, i) : i \in SeqSet(result.used_indices)})
        /\ RLeq(result.kd_min, result.kd_max)
        /\ IsMinOver(result.freq_range_min,
                     {RInt(raw.x[i]) : i \in SeqSet(result.used_indices)})
        /\ IsMaxOver(result.freq_range_max,
                     {RInt(raw.x[i]) : i \in SeqSet(result.used_indices)})

\* a result whose two diffusivities differ and whose kd bounds differ,
\* computed over a selection that leaves a row out
C25_DistinctDiffusivities ==
    /\ InSession
    /\ IsComputed(result)
    /\ result.alpha_phase # result.alpha_amp
    /\ result.kd_min # result.kd_max
    /\ Len(result.used_indices) < Cardinality(DOMAIN raw.x)

(***************************************************************************)
(* The result a session holds.                                             *)
(***************************************************************************)
\* at least 2 indices, strictly ascending, each a row of the table, and
\* ordered frequency limits
WellFormedResult(r) ==
    /\ Len(r.used_indices) >= MinFitPoints
    /\ \A j \in 1..(Len(r.used_indices) - 1) :
           r.used_indices[j] < r.used_indices[j + 1]
    /\ SeqSet(r.used_indices) \subseteq DOMAIN raw.x
    /\ RLeq(r.freq_range_min, r.freq_range_max)

\* C26: the result a session holds is absent, or has at least 2 used
\* indices, strictly ascending and each a row position of the table, and
\* freq_range_min <= freq_range_max; and no results.json written by a Save
\* holds a result of fewer than 2 used indices.
C26_HeldResultWellFormed ==
    /\ result = None \/ WellFormedResult(result)
    /\ \A p \in DOMAIN fs :
           "json" \in DOMAIN fs[p] => Len(fs[p].json.used_indices) >= MinFitPoints

\* a Save has persisted the held result while the selection in force is
\* too short for a fit
C26_StaleResultSaved ==
    /\ InSession
    /\ result # None
    /\ Len(ActiveIndices(range_mask, manual_mask)) < MinFitPoints
    /\ last_save = "ok"
    /\ \E p \in DOMAIN fs : fs[p] = [json |-> result]

(***************************************************************************)
(* A session with its events on record: call holds, for every row, how     *)
(* many times it was picked, and the limits of the last range selection    *)
(* (None before the first).                                                *)
(***************************************************************************)
\* picks recorded per row
MaxToggles == 2

\* the tables a recorded session is opened on
MaskFiles ==
    {FileDesc(<<"in">>, "s1", "ok", n, v.order, v.shape, v.meta) :
        n \in 0..MaxRows,
        v \in {[order |-> "asc", shape |-> "lin", meta |-> <<>>],
               [order |-> "desc", shape |-> "bent",
                meta |-> [thickness |-> 2, x_pos |-> 5, y_pos |-> 6,
                          z_pos |-> 7]]}}

\* the constructor up to plt.show(), lines 9-60
MasksInit ==
    \E f \in MaskFiles :
        /\ files = <<f>>
        /\ out_root = <<"out">>
        /\ pc = "session"
        /\ idx = 1
        /\ attempts = <<1>>
        /\ errors = <<>>
        /\ raw = load_from_text(f)
        /\ manual_mask = [i \in Rows(f.n) |-> TRUE]
        /\ range_mask = [i \in Rows(f.n) |-> TRUE]
        /\ result = update_plot_and_calc(load_from_text(f),
                                         [i \in Rows(f.n) |-> TRUE],
                                         [i \in Rows(f.n) |-> TRUE], None).result
        /\ line_fit = update_plot_and_calc(load_from_text(f),
                                           [i \in Rows(f.n) |-> TRUE],
                                           [i \in Rows(f.n) |-> TRUE], None).line_fit
        /\ windows = {1}
        /\ io_faults = {"none"}
        /\ call = [toggles |-> [i \in Rows(f.n) |-> 0], span |-> None]
        /\ dirs = {<<"out">>}
        /\ fs = <<>>
        /\ last_save = "none"

\* on_range_select, lines 88-90, with the limits put on record
on_range_select_recorded(xmin, xmax) ==
    /\ InSession
    /\ range_mask' = RangeMask(raw.x, xmin, xmax)
    /\ result' = update_plot_and_calc(raw, RangeMask(raw.x, xmin, xmax),
                                      manual_mask, result).result
    /\ line_fit' = update_plot_and_calc(raw, RangeMask(raw.x, xmin, xmax),
                                        manual_mask, result).line_fit
    /\ call' = [call EXCEPT !.span = Some([xmin |-> xmin, xmax |-> xmax])]
    /\ UNCHANGED <<windows, io_faults, files, out_root, pc, idx, attempts, errors, raw,
                   manual_mask, dirs, fs, last_save>>

\* on_point_pick, lines 92-97, with the picked rows put on record
on_point_pick_recorded(ind) ==
    /\ InSession
    /\ \A i \in ind : call.toggles[i] < MaxToggles
    /\ manual_mask' = ToggleMask(manual_mask, ind)
    /\ result' = update_plot_and_calc(raw, range_mask,
                                      ToggleMask(manual_mask, ind), result).result
    /\ line_fit' = update_plot_and_calc(raw, range_mask,
                                        ToggleMask(manual_mask, ind), result).line_fit
    /\ call' = [call EXCEPT !.toggles =
                    [i \in DOMAIN call.toggles |->
                        IF i \in ind THEN call.toggles[i] + 1 ELSE call.toggles[i]]]
    /\ UNCHANGED <<windows, io_faults, files, out_root, pc, idx, attempts, errors, raw,
                   range_mask, dirs, fs, last_save>>

NextMasks ==
    \/ \E xmin, xmax \in SpanLimits :
           xmin <= xmax /\ on_range_select_recorded(xmin, xmax)
    \/ \E ind \in SUBSET DOMAIN manual_mask :
           ind # {} /\ on_point_pick_recorded(ind)
    \/ on_point_pick_other

SpecMasks == MasksInit /\ [][NextMasks]_vars

\* C27: whatever the order of the events, manual_mask holds a row exactly
\* when it was picked an even number of times (two picks restore it), and
\* range_mask is the mask of the last range selection alone (every row
\* before the first): picks and range selections do not interfere.
C27_MasksFromLastRangeAndParity ==
    /\ DOMAIN manual_mask = DOMAIN raw.x
    /\ DOMAIN range_mask = DOMAIN raw.x
    /\ \A i \in DOMAIN raw.x :
           /\ manual_mask[i] <=> (call.toggles[i] % 2 = 0)
           /\ range_mask[i] <=>
                  IF call.span = None THEN TRUE
                  ELSE /\ call.span.some.xmin <= raw.x[i]
                       /\ raw.x[i] <= call.span.some.xmax

\* a row picked twice, a row picked once and a range selection that drops
\* a row: reached by every interleaving of the same events
C27_PickedTwiceAndRanged ==
    /\ call.span # None
    /\ \E i, j \in DOMAIN raw.x :
           /\ call.toggles[i] = 2
           /\ call.toggles[j] = 1
           /\ manual_mask[i]
           /\ ~manual_mask[j]
    /\ \E i \in DOMAIN range_mask : ~range_mask[i]

\* the rows a step has put on record as picked
PickedRows == {i \in DOMAIN call.toggles : call'.toggles[i] # call.toggles[i]}

\* C23: a range selection with limits xmin <= xmax (a step that records
\* limits and no pick) replaces range_mask by the mask that is true exactly
\* at the rows whose x lies in [xmin, xmax], both limits included, and
\* leaves manual_mask as it was.
C23_RangeSelectSetsRangeMaskOnly ==
    [][(call'.span # None /\ PickedRows = {} /\ ~on_point_pick_other) =>
          /\ manual_mask' = manual_mask
          /\ DOMAIN range_mask' = DOMAIN raw.x
          /\ \A i \in DOMAIN raw.x :
                 range_mask'[i] <=> /\ call'.span.some.xmin <= raw.x[i]
                                    /\ raw.x[i] <= call'.span.some.xmax]_vars

\* a range selection has kept some rows and dropped others, in a session
\* whose manual mask excludes a row
C23_RangeSelectedAfterPick ==
    /\ InSession
    /\ call.span # None
    /\ \E i, j \in DOMAIN range_mask : range_mask[i] /\ ~range_mask[j]
    /\ \E i, j \in DOMAIN manual_mask : manual_mask[i] /\ ~manual_mask[j]

\* C24: a pick on the all-points scatter flips manual_mask at exactly the
\* picked rows, changes no other bit of it and no bit of range_mask; a pick
\* on another artist changes neither mask nor the held result.
C24_PickFlipsPickedRowsOnly ==
    [][/\ PickedRows # {} =>
              /\ range_mask' = range_mask
              /\ DOMAIN manual_mask' = DOMAIN manual_mask
              /\ \A i \in DOMAIN manual_mask :
                     manual_mask'[i] = IF i \in PickedRows THEN ~manual_mask[i]
                                       ELSE manual_mask[i]
       /\ on_point_pick_other =>
              /\ manual_mask' = manual_mask
              /\ range_mask' = range_mask
              /\ result' = result]_vars

\* a pick of two rows at once has excluded them while the range mask still
\* holds every row
C24_PickedUnderFullRange ==
    /\ InSession
    /\ \E i, j \in DOMAIN manual_mask :
           /\ i # j
           /\ call.toggles[i] = 1 /\ ~manual_mask[i]
           /\ call.toggles[j] = 1 /\ ~manual_mask[j]
    /\ \A i \in DOMAIN range_mask : range_mask[i]

(***************************************************************************)
(* The unwrap applied to its own output.                                   *)
(***************************************************************************)
\* C28: an array the unwrap returns (the input was an array of floats) has
\* no adjacent difference above the threshold, and the unwrap of it is the
\* same array.
C28_UnwrapIdempotent ==
    (pc = "unwrap_returned" /\ call.dtype = "float64") =>
        /\ \A i \in DOMAIN NpDiff(result) : ~ExceedsThreshold(NpDiff(result)[i])
        /\ unwrap_phase_custom(result, "float64") = result

\* the unwrap has corrected two samples by different numbers of periods
C28_TwoCorrections ==
    /\ pc = "unwrap_returned"
    /\ call.dtype = "float64"
    /\ \E i, j \in DOMAIN call.phase_data :
           /\ result[i] # NaN
           /\ result[j] # NaN
           /\ result[i].k # 0
           /\ result[j].k # 0
           /\ result[i].k # result[j].k

(***************************************************************************)
(* What a save leaves in the case directory.                               *)
(***************************************************************************)
\* the three data artifacts of the case directory of the held data
DataArtifacts ==
    {CaseDir(out_root, raw.filepath) \o <<name>> :
        name \in {"results.json", "input_data.json", "raw_data.txt"}}

\* C29: once a save into an empty destination has returned, results.json,
\* input_data.json and raw_data.txt of the case directory are all there,
\* or none of them is.
C29_SaveAllOrNothing ==
    pc = "save_returned" =>
        \/ DataArtifacts \subseteq DOMAIN fs
        \/ DataArtifacts \cap DOMAIN fs = {}

(***************************************************************************)
(* The case directories of a batch.                                        *)
(***************************************************************************)
\* C30: the case directories of two distinct discovered files are distinct,
\* so that no step replaces a raw_data.txt that was copied from another
\* source file than the one in hand.
C30_NoOverwriteAcrossFiles ==
    [][\A p \in DOMAIN fs :
          ("bytes_of" \in DOMAIN fs[p] /\ fs'[p] # fs[p]) =>
              fs[p] = SourceBytes(raw.filepath)]_vars

====
